---- MODULE Spec2Model ----
(***************************************************************************)
(* A model of TQSim's anyonic circuit engine (tqsim/circuit.py) together   *)
(* with the basis generator (tqsim/lib/basis_generator.py) and the         *)
(* braiding-operator generator (tqsim/lib/operator_generator.py) it        *)
(* consumes.                                                               *)
(*                                                                         *)
(* Numbers.  Every matrix entry the program computes is a polynomial with  *)
(* integer coefficients in                                                 *)
(*      z = exp(2 pi i / 5)      and      s = sqrt(inv_phi),               *)
(* where inv_phi = (sqrt(5) - 1) / 2 = z + z^4.  A number is therefore     *)
(* modelled exactly, as the tuple <<a0,a1,a2,a3,b0,b1,b2,b3>> standing for *)
(*      a0 + a1 z + a2 z^2 + a3 z^3 + s (b0 + b1 z + b2 z^2 + b3 z^3),     *)
(* with z^4 = -(1 + z + z^2 + z^3) and s^2 = inv_phi.  The program works   *)
(* in complex128; the model is the exact value the floats approximate.     *)
(***************************************************************************)
EXTENDS Integers, Sequences, FiniteSets, TLC

----------------------------------------------------------------------------
(* Exact complex arithmetic                                                *)

Num(a0, a1, a2, a3, b0, b1, b2, b3) == <<a0, a1, a2, a3, b0, b1, b2, b3>>

Zero == Num(0, 0, 0, 0, 0, 0, 0, 0)
One == Num(1, 0, 0, 0, 0, 0, 0, 0)

FromInt(k) == Num(k, 0, 0, 0, 0, 0, 0, 0)

Add(x, y) ==
    <<x[1] + y[1], x[2] + y[2], x[3] + y[3], x[4] + y[4],
      x[5] + y[5], x[6] + y[6], x[7] + y[7], x[8] + y[8]>>

Neg(x) ==
    <<0 - x[1], 0 - x[2], 0 - x[3], 0 - x[4],
      0 - x[5], 0 - x[6], 0 - x[7], 0 - x[8]>>

\* Product of two polynomials in z of degree <= 3, reduced by
\* z^4 = -(1 + z + z^2 + z^3), z^5 = 1, z^6 = z.
ZMul(a, b) ==
    LET c0 == a[1] * b[1]
        c1 == a[1] * b[2] + a[2] * b[1]
        c2 == a[1] * b[3] + a[2] * b[2] + a[3] * b[1]
        c3 == a[1] * b[4] + a[2] * b[3] + a[3] * b[2] + a[4] * b[1]
        c4 == a[2] * b[4] + a[3] * b[3] + a[4] * b[2]
        c5 == a[3] * b[4] + a[4] * b[3]
        c6 == a[4] * b[4]
    IN  <<c0 + c5 - c4, c1 + c6 - c4, c2 - c4, c3 - c4>>

\* Multiplication by inv_phi = -1 - z^2 - z^3 of a polynomial in z.
ZMulInvPhi(a) == ZMul(<<-1, 0, -1, -1>>, a)

ZAdd(a, b) == <<a[1] + b[1], a[2] + b[2], a[3] + b[3], a[4] + b[4]>>

Lo(x) == <<x[1], x[2], x[3], x[4]>>
Hi(x) == <<x[5], x[6], x[7], x[8]>>

\* (a + s b)(c + s d) = (ac + inv_phi bd) + s (ad + bc).
Mul(x, y) ==
    IF x = Zero \/ y = Zero THEN Zero
    ELSE IF x = One THEN y
    ELSE IF y = One THEN x
    ELSE LET a == Lo(x)
             b == Hi(x)
             c == Lo(y)
             d == Hi(y)
             re == ZAdd(ZMul(a, c), ZMulInvPhi(ZMul(b, d)))
             im == ZAdd(ZMul(a, d), ZMul(b, c))
         IN  re \o im

\* Complex conjugate: z -> z^4 = -(1 + z + z^2 + z^3), z^2 -> z^3,
\* z^3 -> z^2; s is real.
ZConj(a) == <<a[1] - a[2], 0 - a[2], a[4] - a[2], a[3] - a[2]>>

Conj(x) == ZConj(Lo(x)) \o ZConj(Hi(x))

----------------------------------------------------------------------------------------------------------------------------------------------------
(* Matrices: a matrix is a sequence of rows, a row a sequence of numbers,  *)
(* a vector a sequence of numbers.                                         *)

\* f[1] + ... + f[n]
RECURSIVE SumTo(_, _)
SumTo(f, n) == IF n = 0 THEN Zero ELSE Add(SumTo(f, n - 1), f[n])

\* A[i][1] B[1][j] + ... + A[i][k] B[k][j]
RECURSIVE DotTo(_, _, _, _, _)
DotTo(A, B, i, j, k) ==
    IF k = 0 THEN Zero
    ELSE Add(DotTo(A, B, i, j, k - 1), Mul(A[i][k], B[k][j]))

\* The first j entries of row i of A @ B.
RECURSIVE MatMulRow(_, _, _, _)
MatMulRow(A, B, i, j) ==
    IF j = 0 THEN <<>>
    ELSE Append(MatMulRow(A, B, i, j - 1), DotTo(A, B, i, j, Len(B)))

\* The first i rows of A @ B.
RECURSIVE MatMulRows(_, _, _)
MatMulRows(A, B, i) ==
    IF i = 0 THEN <<>>
    ELSE Append(MatMulRows(A, B, i - 1), MatMulRow(A, B, i, Len(B[1])))

\* A @ B
MatMul(A, B) == MatMulRows(A, B, Len(A))

\* The first j entries of row i of A.T.conjugate().
RECURSIVE ConjTransposeRow(_, _, _)
ConjTransposeRow(A, i, j) ==
    IF j = 0 THEN <<>>
    ELSE Append(ConjTransposeRow(A, i, j - 1), Conj(A[j][i]))

\* The first i rows of A.T.conjugate().
RECURSIVE ConjTransposeRows(_, _)
ConjTransposeRows(A, i) ==
    IF i = 0 THEN <<>>
    ELSE Append(ConjTransposeRows(A, i - 1), ConjTransposeRow(A, i, Len(A)))

\* A.T.conjugate()
ConjTranspose(A) == ConjTransposeRows(A, Len(A[1]))

\* A[i][1] v[1] + ... + A[i][k] v[k]
RECURSIVE RowDotTo(_, _, _, _)
RowDotTo(A, v, i, k) ==
    IF k = 0 THEN Zero
    ELSE Add(RowDotTo(A, v, i, k - 1), Mul(A[i][k], v[k]))

\* The first i entries of A @ v.
RECURSIVE MatVecTo(_, _, _)
MatVecTo(A, v, i) ==
    IF i = 0 THEN <<>>
    ELSE Append(MatVecTo(A, v, i - 1), RowDotTo(A, v, i, Len(v)))

\* A @ v
MatVec(A, v) == MatVecTo(A, v, Len(A))

\* np.eye(d)
Eye(d) == [i \in 1..d |-> [j \in 1..d |-> IF i = j THEN One ELSE Zero]]

----
(* tqsim/lib/basis_generator.py                                            *)

\* check_rule with two anyons never fusing to the vacuum.
check_rule_no_vacuum(anyon1, anyon2, outcome) ==
    IF anyon1 /= 0 /\ anyon2 /= 0 THEN outcome = 1
    ELSE IF (anyon1 /= 0 \/ anyon2 /= 0) /\ outcome = 1 THEN TRUE
    ELSE IF ~(anyon1 /= 0 \/ anyon2 /= 0) /\ outcome = 0 THEN TRUE
    ELSE FALSE

\* check_rule(anyon1, anyon2, outcome): the Fibonacci fusion rule.
check_rule(anyon1, anyon2, outcome) ==
    IF anyon1 /= 0 /\ anyon2 /= 0 THEN TRUE
    ELSE IF (anyon1 /= 0 \/ anyon2 /= 0) /\ outcome = 1 THEN TRUE
    ELSE IF ~(anyon1 /= 0 \/ anyon2 /= 0) /\ outcome = 0 THEN TRUE
    ELSE FALSE

\* The loop of check_outcomes from position i on, previous_outcome = prev.
RECURSIVE check_outcomes_from(_, _, _)
check_outcomes_from(outcomes, i, prev) ==
    IF i > Len(outcomes) THEN TRUE
    ELSE IF check_rule(prev, 1, outcomes[i])
         THEN check_outcomes_from(outcomes, i + 1, outcomes[i])
         ELSE FALSE

check_outcomes(outcomes) == check_outcomes_from(outcomes, 1, 1)

\* The loop of check_state over the roots from position i on.
RECURSIVE check_roots_from(_, _, _)
check_roots_from(state, i, prev) ==
    IF i > Len(state.roots) THEN TRUE
    ELSE LET q == state.qudits[i + 1]
         IN  IF check_rule(prev, q[Len(q)], state.roots[i])
             THEN check_roots_from(state, i + 1, state.roots[i])
             ELSE FALSE

\* check_state without the loop over the roots.
check_state_roots_unchecked(state) ==
    LET nb_qudits == Len(state.qudits)
        qudit_len == Len(state.qudits[1])
    IN  /\ \A k \in 1..nb_qudits :
               /\ Len(state.qudits[k]) = qudit_len
               /\ check_outcomes(state.qudits[k])
        /\ nb_qudits = Len(state.roots) + 1

check_state(state) ==
    LET nb_qudits == Len(state.qudits)
        qudit_len == Len(state.qudits[1])
    IN  /\ \A k \in 1..nb_qudits :
               /\ Len(state.qudits[k]) = qudit_len
               /\ check_outcomes(state.qudits[k])
        /\ nb_qudits = Len(state.roots) + 1
        /\ check_roots_from(state, 1, state.qudits[1][qudit_len])

\* gen_state(comb, nb_qudits, qudit_len): the first nb_qudits * qudit_len
\* labels are cut into qudits of qudit_len labels, the rest are the roots.
gen_state(comb, nb_qudits, qudit_len) ==
    [qudits |-> [k \in 1..nb_qudits |->
                    [j \in 1..qudit_len |-> comb[(k - 1) * qudit_len + j]]],
     roots |-> [r \in 1..(Len(comb) - nb_qudits * qudit_len) |->
                    comb[nb_qudits * qudit_len + r]]]

\* next_comb_from with the labels 1 it passes left as they are.
RECURSIVE next_comb_from_no_reset(_, _)
next_comb_from_no_reset(comb, i) ==
    IF i > Len(comb) THEN comb
    ELSE IF comb[i] = 0 THEN [comb EXCEPT ![i] = 1]
    ELSE next_comb_from_no_reset(comb, i + 1)

\* One pass of the for loop of generate_basis over curr_comb from position
\* i: the first 0 becomes 1 and the loop breaks, every 1 before it becomes 0.
RECURSIVE next_comb_from(_, _)
next_comb_from(comb, i) ==
    IF i > Len(comb) THEN comb
    ELSE IF comb[i] = 0 THEN [comb EXCEPT ![i] = 1]
    ELSE next_comb_from([comb EXCEPT ![i] = 0], i + 1)

\* next_comb counting from the last label: the last 0 becomes 1 and every
\* 1 after it becomes 0.
RECURSIVE next_comb_back_from(_, _)
next_comb_back_from(comb, i) ==
    IF i < 1 THEN comb
    ELSE IF comb[i] = 0 THEN [comb EXCEPT ![i] = 1]
    ELSE next_comb_back_from([comb EXCEPT ![i] = 0], i - 1)

next_comb_last_fastest(comb) == next_comb_back_from(comb, Len(comb))

next_comb(comb) == next_comb_from(comb, 1)

\* curr_comb after t passes of the while loop of generate_basis: the for
\* loop counts in binary with the first label least significant, so
\* next_comb(comb_at(t, k)) = comb_at(t + 1, k) for t + 1 < 2^k.
comb_at(t, nb_labels) == [i \in 1..nb_labels |-> (t \div (2 ^ (i - 1))) % 2]

\* generate_basis(nb_qudits, nb_anyons_per_qudit): the state of curr_comb
\* before the while loop and after each of its passes (the last pass
\* reaches final_comb, all ones), kept when check_state accepts it.
generate_basis(nb_qudits, nb_anyons_per_qudit) ==
    LET nb_roots == nb_qudits - 1
        qudit_len == nb_anyons_per_qudit - 1
        nb_labels == nb_qudits * qudit_len + nb_roots
        states == [t \in 1..(2 ^ nb_labels) |->
                      gen_state(comb_at(t - 1, nb_labels), nb_qudits,
                                qudit_len)]
    IN  SelectSeq(states, check_state)

----------------------------------------------------------------------------
(* tqsim/lib/operator_generator.py                                         *)

\* inv_phi = (sqrt(5) - 1) / 2 = z + z^4 = -1 - z^2 - z^3
inv_phi == Num(-1, 0, -1, -1, 0, 0, 0, 0)

\* np.sqrt(inv_phi) = s
sqrt_inv_phi == Num(0, 0, 0, 0, 1, 0, 0, 0)

\* np.exp(-4 * np.pi * 1j / 5) = z^3
exp_m4 == Num(0, 0, 0, 1, 0, 0, 0, 0)

\* np.exp(3 * np.pi * 1j / 5) = -z^4 = 1 + z + z^2 + z^3
exp_p3 == Num(1, 1, 1, 1, 0, 0, 0, 0)

Mat2(a, b, c, d) == <<<<a, b>>, <<c, d>>>>

\* F with the sign of the last entry of the tau-tau-tau-tau matrix lost.
F_no_sign(a1, a2, a3, outcome) ==
    LET t == a1 + a2 + a3 + outcome
    IN  IF t = 4 THEN Mat2(inv_phi, sqrt_inv_phi, sqrt_inv_phi, inv_phi)
        ELSE IF t = 3 THEN Mat2(Zero, Zero, Zero, One)
        ELSE IF t = 2 THEN
            IF a1 + a2 = 2 THEN Mat2(Zero, One, Zero, Zero)
            ELSE IF a2 + a3 = 2 THEN Mat2(Zero, Zero, One, Zero)
            ELSE IF a1 + a3 = 2 THEN Mat2(Zero, Zero, Zero, One)
            ELSE IF a3 + outcome = 2 THEN Mat2(Zero, One, Zero, Zero)
            ELSE IF a1 + outcome = 2 THEN Mat2(Zero, Zero, One, Zero)
            ELSE IF a2 + outcome = 2 THEN Mat2(Zero, Zero, Zero, One)
            ELSE Mat2(Zero, Zero, Zero, Zero)
        ELSE IF t = 0 THEN Mat2(One, Zero, Zero, Zero)
        ELSE Mat2(Zero, Zero, Zero, Zero)

\* F(a1, a2, a3, outcome)
F(a1, a2, a3, outcome) ==
    LET t == a1 + a2 + a3 + outcome
    IN  IF t = 4 THEN Mat2(inv_phi, sqrt_inv_phi, sqrt_inv_phi, Neg(inv_phi))
        ELSE IF t = 3 THEN Mat2(Zero, Zero, Zero, One)
        ELSE IF t = 2 THEN
            IF a1 + a2 = 2 THEN Mat2(Zero, One, Zero, Zero)
            ELSE IF a2 + a3 = 2 THEN Mat2(Zero, Zero, One, Zero)
            ELSE IF a1 + a3 = 2 THEN Mat2(Zero, Zero, Zero, One)
            ELSE IF a3 + outcome = 2 THEN Mat2(Zero, One, Zero, Zero)
            ELSE IF a1 + outcome = 2 THEN Mat2(Zero, Zero, One, Zero)
            ELSE IF a2 + outcome = 2 THEN Mat2(Zero, Zero, Zero, One)
            ELSE Mat2(Zero, Zero, Zero, Zero)
        ELSE IF t = 0 THEN Mat2(One, Zero, Zero, Zero)
        ELSE Mat2(Zero, Zero, Zero, Zero)

\* R without the phase of the tau channel.
R_tau_phase_one(a1, a2) ==
    IF a1 + a2 = 2 THEN Mat2(exp_m4, Zero, Zero, One)
    ELSE Mat2(One, Zero, Zero, One)

\* R(a1, a2)
R(a1, a2) ==
    IF a1 + a2 = 2 THEN Mat2(exp_m4, Zero, Zero, exp_p3)
    ELSE Mat2(One, Zero, Zero, One)

\* B(a0, a1, a2, outcome)
B(a0, a1, a2, outcome) ==
    MatMul(MatMul(F(a0, a1, a2, outcome), R(a1, a2)),
           ConjTranspose(F(a0, a2, a1, outcome)))

\* sigma(index, state_f, state_i): index is 1-based as in the program;
\* the program's list position p is position p + 1 here.
sigma(index, state_f, state_i) ==
    LET stt_f == <<1>> \o state_f
        stt_i == <<1>> \o state_i
        a0 == IF index - 2 < 0 THEN 0
              ELSE IF index - 2 = 0 THEN 1
              ELSE state_i[index - 2]
        outcome == state_i[index]
        a == stt_i[index]
        b == stt_f[index]
        amplitude == B(a0, 1, 1, outcome)[a + 1][b + 1]
        ket == [stt_i EXCEPT ![index] = b]
        bra == stt_f
    IN  IF ket = bra THEN amplitude ELSE Zero

\* gen_sigma_inside without the comparison of the roots.
gen_sigma_inside_roots_unchecked(index, state_i, state_f) ==
    LET qudit_len == Len(state_i.qudits[1])
        nb_anyons_per_qudit == qudit_len + 1
        m == index \div nb_anyons_per_qudit
        idx == index % nb_anyons_per_qudit
        amplitude == sigma(idx, state_f.qudits[m + 1], state_i.qudits[m + 1])
    IN  IF \A i \in 1..Len(state_i.qudits) :
               i = m + 1 \/ state_i.qudits[i] = state_f.qudits[i]
        THEN amplitude ELSE Zero

\* gen_sigma(index, state_i, state_f), the branch index % nb_anyons_per_qudit
\* > 0: both anyons lie in qudit m (0-based in the program, m + 1 here).
gen_sigma_inside(index, state_i, state_f) ==
    LET qudit_len == Len(state_i.qudits[1])
        nb_anyons_per_qudit == qudit_len + 1
        m == index \div nb_anyons_per_qudit
        idx == index % nb_anyons_per_qudit
        amplitude == sigma(idx, state_f.qudits[m + 1], state_i.qudits[m + 1])
        braket ==
            IF /\ \A i \in 1..Len(state_i.qudits) :
                      i = m + 1 \/ state_i.qudits[i] = state_f.qudits[i]
               /\ \A i \in 1..Len(state_i.roots) :
                      state_i.roots[i] = state_f.roots[i]
            THEN 1 ELSE 0
    IN  IF braket = 1 THEN amplitude ELSE Zero

\* The for loop of L over ii (0-based as in the program) from ii up to
\* qudit_len - 1, starting from product; jjj_ and jjj carry the leading 1,
\* pp is new_p with k appended.  M.T.conjugate()[r, c] is Conj(M[c][r]).
RECURSIVE L_product_from(_, _, _, _, _, _, _)
L_product_from(product, ii, i_, i, jjj_, jjj, pp) ==
    IF ii > Len(jjj) - 2 THEN product
    ELSE L_product_from(
             Mul(Mul(product,
                     Conj(F(i, jjj[ii + 1], 1, pp[ii + 2])
                              [pp[ii + 1] + 1][jjj[ii + 2] + 1])),
                 F(i_, jjj_[ii + 1], 1, pp[ii + 2])
                     [pp[ii + 1] + 1][jjj_[ii + 2] + 1]),
             ii + 1, i_, i, jjj_, jjj, pp)

\* The product L adds to component for one assignment new_p.
L_term(k, h, i_, i, jj_, jj, new_p) ==
    LET pp == Append(new_p, k)
        product == L_product_from(One, 0, i_, i, <<1>> \o jj_, <<1>> \o jj, pp)
    IN  Mul(product, B(h, 1, 1, pp[1])[i + 1][i_ + 1])

\* The while loop of L, and the final iteration after it.
RECURSIVE L_loop(_, _, _, _, _, _, _, _)
L_loop(component, new_p, k, h, i_, i, jj_, jj) ==
    LET final_p == [x \in 1..Len(jj) |-> 1]
        added == Add(component, L_term(k, h, i_, i, jj_, jj, new_p))
    IN  IF new_p = final_p THEN added
        ELSE L_loop(added, next_comb(new_p), k, h, i_, i, jj_, jj)

\* L(k, h, i_, i, jj_, jj)
L(k, h, i_, i, jj_, jj) ==
    L_loop(Zero, [x \in 1..Len(jj) |-> 0], k, h, i_, i, jj_, jj)

\* One term of the sum of S, for kk.
S_term(kk, jm, jmo, jmoo, jmo_, h, i_, i, jj_, jj) ==
    Mul(Mul(F(jmoo, i, jj[Len(jj)], jm)[jmo + 1][kk + 1],
            L(kk, h, i_, i, jj_, jj)),
        Conj(F(jmoo, i_, jj_[Len(jj_)], jm)[jmo_ + 1][kk + 1]))

\* S(jm, jmo, jmoo, jmo_, h, i_, i, jj_, jj)
S(jm, jmo, jmoo, jmo_, h, i_, i, jj_, jj) ==
    Add(S_term(0, jm, jmo, jmoo, jmo_, h, i_, i, jj_, jj),
        S_term(1, jm, jmo, jmoo, jmo_, h, i_, i, jj_, jj))

\* What gen_sigma yields when state_i["qudits"][m][-2] does not exist (a
\* qudit of one label, nb_anyons_per_qudit = 2): Python raises IndexError.
PyIndexError == "IndexError"

\* The exception gen_sigma(index, state_i, state_f) raises: the IndexError
\* of state_i["qudits"][m][-2] when the index lies between two qudits of
\* one label each; "none" (no exception) otherwise.
gen_sigma_err(index, state_i, state_f) ==
    LET qudit_len == Len(state_i.qudits[1])
        nb_anyons_per_qudit == qudit_len + 1
    IN  IF index % nb_anyons_per_qudit = 0 /\ qudit_len < 2
        THEN PyIndexError ELSE "none"

\* gen_sigma(index, state_i, state_f), the branch index % nb_anyons_per_qudit
\* = 0: the anyons are the last of qudit m and the first of qudit m + 1
\* (0-based in the program; qudit m is qudits[m + 1] and root r is
\* roots[r + 1] here).
gen_sigma_between(index, state_i, state_f) ==
    LET qudit_len == Len(state_i.qudits[1])
        nb_anyons_per_qudit == qudit_len + 1
        m == (index \div nb_anyons_per_qudit) - 1
        qm == [state_i.qudits[m + 1] EXCEPT
                  ![qudit_len] = state_f.qudits[m + 1][qudit_len]]
        new_qudits == [state_i.qudits EXCEPT
                          ![m + 1] = qm, ![m + 2] = state_f.qudits[m + 2]]
        new_roots == IF m + 1 >= 2
                     THEN [state_i.roots EXCEPT ![m] = state_f.roots[m]]
                     ELSE state_i.roots
        new_state_i == [qudits |-> new_qudits, roots |-> new_roots]
        jj_ == new_state_i.qudits[m + 2]
        jj == state_i.qudits[m + 2]
        h == state_i.qudits[m + 1][qudit_len - 1]
        i == state_i.qudits[m + 1][qudit_len]
        i_ == new_state_i.qudits[m + 1][qudit_len]
        jmo_ == IF m + 1 >= 2 THEN new_state_i.roots[m]
                ELSE new_state_i.qudits[1][qudit_len]
        jmoo == IF m + 1 > 2 THEN state_i.roots[m - 1]
                ELSE IF m + 1 = 2 THEN state_i.qudits[1][qudit_len]
                ELSE 0
        jmo == IF m + 1 >= 2 THEN state_i.roots[m]
               ELSE state_i.qudits[1][qudit_len]
        jm == state_i.roots[m + 1]
    IN  IF qudit_len < 2 THEN PyIndexError
        ELSE IF new_state_i /= state_f THEN Zero
        ELSE S(jm, jmo, jmoo, jmo_, h, i_, i, jj_, jj)

\* gen_sigma(index, state_i, state_f)
gen_sigma(index, state_i, state_f) ==
    LET qudit_len == Len(state_i.qudits[1])
        nb_anyons_per_qudit == qudit_len + 1
    IN  IF index % nb_anyons_per_qudit > 0
        THEN gen_sigma_inside(index, state_i, state_f)
        ELSE gen_sigma_between(index, state_i, state_f)

\* The inner loop of generate_braiding_operator for row f, over the first
\* k states base_i of the basis.
RECURSIVE operator_row_to(_, _, _, _)
operator_row_to(index, basis, f, k) ==
    IF k = 0 THEN <<>>
    ELSE Append(operator_row_to(index, basis, f, k - 1),
                gen_sigma(index, basis[k], basis[f]))

\* The outer loop of generate_braiding_operator over the first f states
\* base_f of the basis.
RECURSIVE operator_rows_to(_, _, _)
operator_rows_to(index, basis, f) ==
    IF f = 0 THEN <<>>
    ELSE Append(operator_rows_to(index, basis, f - 1),
                operator_row_to(index, basis, f, Len(basis)))

\* generate_braiding_operator(index, nb_qudits, nb_anyons_per_qudit):
\* row f, column i holds gen_sigma(index, basis[i], basis[f]).
generate_braiding_operator(index, nb_qudits, nb_anyons_per_qudit) ==
    LET basis == generate_basis(nb_qudits, nb_anyons_per_qudit)
    IN  operator_rows_to(index, basis, Len(basis))

\* The exception generate_braiding_operator raises: that of the first
\* gen_sigma it evaluates (base_f and base_i the first state of the basis).
generate_braiding_operator_err(index, nb_qudits, nb_anyons_per_qudit) ==
    LET basis == generate_basis(nb_qudits, nb_anyons_per_qudit)
    IN  IF basis = <<>> THEN "none"
        ELSE gen_sigma_err(index, basis[1], basis[1])

----------------------------------------------------------------------------
(* Inputs of the circuit's operations                                      *)

\* An argument that the program tests with isinstance(x, int): an integer
\* v, or a float (isint = FALSE) whose value is v / 2.
IntArg(v) == [isint |-> TRUE, v |-> v]
FloatArg(v) == [isint |-> FALSE, v |-> v]

\* A state vector is the exact vector v scaled by 1 + ppm / 10^6: the
\* scale lets an input lie off the unit sphere by a few parts per million,
\* which is what the two floating-point tolerances of the program tell apart.
Vec(ppm, v) == [ppm |-> ppm, v |-> v]

\* Bounds of the model.
MaxBraids == 2
MaxShots == 1

\* The configurations (nb_qudits, nb_anyons_per_qudit) circuits are built for.
Configs == {<<1, 3>>}

\* abs(k)
Abs(k) == IF k < 0 THEN 0 - k ELSE k

\* isinstance(x, int)
isinstance_int(x) == x.isint

\* The exception classes of the program, and no exception.
NoError == "none"
PyException == "Exception"
PyValueError == "ValueError"
PyEOFError == "EOFError"

----------------------------------------------------------------------------
(* tqsim/lib/drawer.py: the drawer keeps, per worldline position, the      *)
(* anyon now on it (idx_map); the segments a call appends to the anyons'   *)
(* paths are recorded as the call itself.                                  *)

DrawerInit(nb_qudits, nb_anyons_per_qudit) ==
    [idx_map |-> [id \in 1..(nb_qudits * nb_anyons_per_qudit) |-> id],
     calls |-> <<>>]

\* Drawer.braid with the two positions recorded in the order of the
\* circuit's call.
DrawerBraid_positions_exchanged(d, m, n) ==
    [idx_map |-> [d.idx_map EXCEPT ![n] = d.idx_map[m], ![m] = d.idx_map[n]],
     calls |-> Append(d.calls, <<"braid", n, m>>)]

\* Drawer.braid(m, n)
DrawerBraid(d, m, n) ==
    [idx_map |-> [d.idx_map EXCEPT ![n] = d.idx_map[m], ![m] = d.idx_map[n]],
     calls |-> Append(d.calls, <<"braid", m, n>>)]

\* Drawer.measure()
DrawerMeasure(d) ==
    [idx_map |-> d.idx_map, calls |-> Append(d.calls, <<"measure">>)]

----------------------------------------------------------------------------
(* tqsim/circuit.py: class AnyonicCircuit                                  *)

VARIABLES
    nb_qudits,            \* self.__nb_qudits
    nb_anyons_per_qudit,  \* self.__nb_anyons_per_qudit
    nb_anyons,            \* self.__nb_anyons
    nb_braids,            \* self.__nb_braids
    braids_history,       \* self.__braids_history
    measured,             \* self.__measured
    dim,                  \* self.__dim
    initial_state,        \* self.__initial_state
    sigmas,               \* self.__sigmas
    unitary,              \* self.__unitary
    drawer,               \* self.__drawer
    last,                 \* the last call: operation, arguments, outcome
    gen,                  \* calls of the library's generator functions
    store,                \* the files under STORE_PATH, per configuration
    callers,              \* the constructions AnyonicCircuit(q, a) under way
    cqt,                  \* a circuit of cqt_anyons, of the same configuration
    loop                  \* a call of generate_basis, pass by pass

vars == <<nb_qudits, nb_anyons_per_qudit, nb_anyons, nb_braids,
          braids_history, measured, dim, initial_state, sigmas, unitary,
          drawer, last, gen, store, callers, cqt, loop>>

\* The fields of the circuit the operations act on, and the last call.
circuit_vars == <<nb_qudits, nb_anyons_per_qudit, nb_anyons, nb_braids,
                  braids_history, measured, dim, initial_state, sigmas,
                  unitary, drawer, last>>

\* What no operation of a constructed circuit changes: its configuration,
\* and the state outside the circuit.
config_vars == <<nb_qudits, nb_anyons_per_qudit, nb_anyons, dim, sigmas, gen,
                 store, callers, cqt, loop>>

\* The fields a braid reads and writes, as one value.
Self ==
    [nb_anyons |-> nb_anyons, nb_braids |-> nb_braids,
     braids_history |-> braids_history, measured |-> measured,
     sigmas |-> sigmas, unitary |-> unitary, drawer |-> drawer,
     err |-> NoError]

\* No generator function has been called: no arguments chosen, no result.
GenIdle ==
    [pc |-> "idle", nb_qudits |-> 0, nb_anyons_per_qudit |-> 0,
     i |-> 0, j |-> 0, basis |-> <<>>, Gi |-> <<>>, Gj |-> <<>>,
     err |-> NoError]

\* generate_basis has not been called.
LoopIdle ==
    [pc |-> "idle", nb_qudits |-> 0, nb_anyons_per_qudit |-> 0,
     curr_comb |-> <<>>, basis |-> <<>>, examined |-> <<>>]

\* The configurations circuits are constructed for by the callers, which
\* are also the keys of the store, and the callers.
CtorConfigs == {<<1, 2>>, <<1, 3>>, <<2, 2>>}
Callers == {1, 2}

\* A file of the store: absent, created by open(filename, "wb") and still
\* empty, or complete once pickle.dump has written it and it was closed.
AbsentFile == [state |-> "absent", data |-> <<>>]
EmptyFile == [state |-> "empty", data |-> <<>>]
CompleteFile(data) == [state |-> "complete", data |-> data]

\* A caller that has not called AnyonicCircuit yet.
CallerIdle ==
    [pc |-> "idle", key |-> <<0, 0>>, fresh |-> FALSE, later |-> FALSE,
     basis |-> <<>>, dim |-> 0, sigmas |-> <<>>,
     basis_loaded |-> FALSE, sigmas_loaded |-> FALSE,
     initial_state |-> <<>>, unitary |-> <<>>, drawer |-> <<>>,
     err |-> NoError]

\* AnyonicCircuit.__init__(nb_qudits, nb_anyons_per_qudit)
Init ==
    \E c \in Configs :
        LET basis == generate_basis(c[1], c[2])
        IN  /\ nb_qudits = c[1]
            /\ nb_anyons_per_qudit = c[2]
            /\ nb_anyons = c[1] * c[2]
            /\ nb_braids = 0
            /\ braids_history = <<>>
            /\ measured = FALSE
            /\ dim = Len(basis)
            /\ initial_state =
                   Vec(0, [i \in 1..Len(basis) |-> IF i = 1 THEN One ELSE Zero])
            /\ sigmas = [index \in 1..(c[1] * c[2] - 1) |->
                            generate_braiding_operator(index, c[1], c[2])]
            /\ unitary = Eye(Len(basis))
            /\ drawer = DrawerInit(c[1], c[2])
            /\ last = [op |-> "init", err |-> NoError]
            /\ gen = GenIdle
            /\ store = [k \in CtorConfigs |->
                            [basis |-> AbsentFile, sigmas |-> AbsentFile]]
            /\ callers = [caller \in Callers |-> CallerIdle]
            /\ cqt = [nb_anyons |-> c[1] * c[2], nb_braids |-> 0,
                      braids_history |-> <<>>, measured |-> FALSE,
                      sigmas |-> [index \in 1..(c[1] * c[2] - 1) |->
                                    generate_braiding_operator(index, c[1], c[2])],
                      unitary |-> Eye(Len(basis)),
                      drawer |-> DrawerInit(c[1], c[2]), err |-> NoError]
            /\ loop = LoopIdle

\* braid_err with the arguments validated before the measured flag is read.
braid_err_args_first(self, n, m) ==
    IF ~isinstance_int(m) \/ ~isinstance_int(n) THEN PyValueError
    ELSE IF m.v < 1 \/ n.v < 1 THEN PyValueError
    ELSE IF m.v > self.nb_anyons \/ n.v > self.nb_anyons THEN PyValueError
    ELSE IF self.measured THEN PyException
    ELSE IF Abs(n.v - m.v) /= 1 THEN PyException
    ELSE NoError

\* braid_err with adjacency tested before the range of the positions.
braid_err_adjacency_first(self, n, m) ==
    IF self.measured THEN PyException
    ELSE IF ~isinstance_int(m) \/ ~isinstance_int(n) THEN PyValueError
    ELSE IF Abs(n.v - m.v) /= 1 THEN PyException
    ELSE IF m.v < 1 \/ n.v < 1 THEN PyValueError
    ELSE IF m.v > self.nb_anyons \/ n.v > self.nb_anyons THEN PyValueError
    ELSE NoError

\* braid_err with a non-adjacent pair reported as a ValueError.
braid_err_adjacency_value(self, n, m) ==
    IF self.measured THEN PyException
    ELSE IF ~isinstance_int(m) \/ ~isinstance_int(n) THEN PyValueError
    ELSE IF m.v < 1 \/ n.v < 1 THEN PyValueError
    ELSE IF m.v > self.nb_anyons \/ n.v > self.nb_anyons THEN PyValueError
    ELSE IF Abs(n.v - m.v) /= 1 THEN PyValueError
    ELSE NoError

\* The checks braid(n, m) makes before it changes anything: the exception
\* it raises.
braid_err(self, n, m) ==
    IF self.measured THEN PyException
    ELSE IF ~isinstance_int(m) \/ ~isinstance_int(n) THEN PyValueError
    ELSE IF m.v < 1 \/ n.v < 1 THEN PyValueError
    ELSE IF m.v > self.nb_anyons \/ n.v > self.nb_anyons THEN PyValueError
    ELSE IF Abs(n.v - m.v) /= 1 THEN PyException
    ELSE NoError

\* braid_unitary with the reverse exchange applying the generator itself.
braid_unitary_no_inverse(self, n, m) ==
    IF n < m
    THEN MatMul(self.sigmas[n], self.unitary)
    ELSE MatMul(self.sigmas[m], self.unitary)

\* braid_unitary with the two directions exchanged.
braid_unitary_swapped(self, n, m) ==
    IF n < m
    THEN MatMul(ConjTranspose(self.sigmas[n]), self.unitary)
    ELSE MatMul(self.sigmas[m], self.unitary)

\* The unitary after braid(n, m).  Generator index k is self.__sigmas[k - 1]
\* in the program and sigmas[k] here.
braid_unitary(self, n, m) ==
    IF n < m
    THEN MatMul(self.sigmas[n], self.unitary)
    ELSE MatMul(ConjTranspose(self.sigmas[m]), self.unitary)

\* braid without the increment of the braid count.
braid_uncounted(self, n, m) ==
    IF braid_err(self, n, m) /= NoError
    THEN [self EXCEPT !.err = braid_err(self, n, m)]
    ELSE [self EXCEPT
            !.unitary = braid_unitary(self, n.v, m.v),
            !.braids_history = Append(self.braids_history, <<n.v, m.v>>),
            !.drawer = DrawerBraid(self.drawer, m.v, n.v)]

\* braid(n, m) on the circuit value self: the circuit after the call, err
\* naming the exception it raised.
braid(self, n, m) ==
    IF braid_err(self, n, m) /= NoError
    THEN [self EXCEPT !.err = braid_err(self, n, m)]
    ELSE [self EXCEPT
            !.unitary = braid_unitary(self, n.v, m.v),
            !.braids_history = Append(self.braids_history, <<n.v, m.v>>),
            !.nb_braids = self.nb_braids + 1,
            !.drawer = DrawerBraid(self.drawer, m.v, n.v)]

\* cqt_anyons/circuit.py, braid(n, m): the exception it raises.  Adjacency
\* is tested first, on the values themselves: twice the value of a float
\* argument is its v, twice the value of an integer one is 2 * v.
cqt_braid_err(self, n, m) ==
    LET twice(x) == IF x.isint THEN 2 * x.v ELSE x.v
    IN  IF self.measured THEN PyException
        ELSE IF Abs(twice(n) - twice(m)) /= 2 THEN PyException
        ELSE IF ~isinstance_int(m) \/ ~isinstance_int(n) THEN PyValueError
        ELSE IF m.v < 1 \/ n.v < 1 THEN PyValueError
        ELSE IF m.v > self.nb_anyons \/ n.v > self.nb_anyons THEN PyValueError
        ELSE NoError

\* cqt_braid_unitary with the generator and its inverse exchanged.
cqt_braid_unitary_swapped(self, n, m) ==
    IF n < m
    THEN MatMul(ConjTranspose(self.sigmas[n]), self.unitary)
    ELSE MatMul(self.sigmas[m], self.unitary)

\* cqt_anyons/circuit.py, braid(n, m): the unitary after the call.
cqt_braid_unitary(self, n, m) ==
    IF n < m
    THEN MatMul(self.sigmas[n], self.unitary)
    ELSE MatMul(ConjTranspose(self.sigmas[m]), self.unitary)

\* cqt_anyons/circuit.py, braid(n, m) on the circuit value self.
cqt_braid(self, n, m) ==
    IF cqt_braid_err(self, n, m) /= NoError
    THEN [self EXCEPT !.err = cqt_braid_err(self, n, m)]
    ELSE [self EXCEPT
            !.unitary = cqt_braid_unitary(self, n.v, m.v),
            !.braids_history = Append(self.braids_history, <<m.v, n.v>>),
            !.nb_braids = self.nb_braids + 1,
            !.drawer = DrawerBraid(self.drawer, m.v, n.v),
            !.err = NoError]

\* cqt_anyons/circuit.py, measure() on the circuit value self: it tests
\* nothing.
cqt_measure(self) ==
    [self EXCEPT !.measured = TRUE, !.drawer = DrawerMeasure(self.drawer),
                 !.err = NoError]

\* np.sum(np.real(input_state * input_state.conjugate())) of the exact part.
ExactNorm(v) == SumTo([i \in 1..Len(v) |-> Mul(v[i], Conj(v[i]))], Len(v))

\* (1 + ppm / 10^6)^2 - 1 in units of 10^-12.
DevPico(ppm) == 2 * ppm * 1000000 + ppm * ppm

\* np.isclose(x, 1) has atol = 1e-8 and rtol = 1e-5 (times |1|);
\* np.random.choice accepts p when |sum(p) - 1| <= sqrt(eps) = 1.4901e-8.
\* All three in units of 10^-12.
IsCloseAtolPico == 10000
IsCloseRtolPico == 10000000
ChoiceAtolPico == 14901

\* |x - 1| <= tol for x = norm * (1 + ppm / 10^6)^2, norm an exact number
\* that is an integer: when norm is 1 the deviation is DevPico(ppm); when it
\* is another integer x is at least 0.99 away from 1 (|ppm| < 1000).
WithinOfOne(norm, ppm, tol) ==
    CASE norm = One -> Abs(DevPico(ppm)) <= tol
      [] norm /= One /\ norm = FromInt(norm[1]) -> FALSE

\* initialize_err without the test of the number of components.
initialize_err_size_unchecked(input_state) ==
    IF nb_braids > 0 THEN PyException
    ELSE IF ~WithinOfOne(ExactNorm(input_state.v), input_state.ppm,
                         IsCloseAtolPico + IsCloseRtolPico)
         THEN PyValueError
    ELSE NoError

\* initialize_err with "a braid was performed" read off the unitary.
initialize_err_by_unitary(input_state) ==
    IF unitary /= Eye(dim) THEN PyException
    ELSE IF Len(input_state.v) /= dim THEN PyValueError
    ELSE IF ~WithinOfOne(ExactNorm(input_state.v), input_state.ppm,
                         IsCloseAtolPico + IsCloseRtolPico)
         THEN PyValueError
    ELSE NoError

\* initialize(input_state) on the circuit: the exception it raises.
initialize_err(input_state) ==
    IF nb_braids > 0 THEN PyException
    ELSE IF Len(input_state.v) /= dim THEN PyValueError
    ELSE IF ~WithinOfOne(ExactNorm(input_state.v), input_state.ppm,
                         IsCloseAtolPico + IsCloseRtolPico)
         THEN PyValueError
    ELSE NoError

\* The vectors initialize is called with: a unit vector, a unit vector
\* scaled by 1.000004 (inside the tolerance of np.isclose) and by 1.000006
\* (outside it), an unnormalised one and one of the wrong size.
InputStates ==
    LET e(k, n) == [i \in 1..n |-> IF i = k THEN One ELSE Zero]
    IN  { Vec(0, [i \in 1..dim |->
                     IF i = dim - 1 THEN inv_phi
                     ELSE IF i = dim THEN sqrt_inv_phi ELSE Zero]),
          Vec(4, e(1, dim)),
          Vec(6, e(1, dim)),
          Vec(0, [i \in 1..dim |-> One]),
          Vec(0, e(1, dim + 2)) }

Initialize(input_state) ==
    LET err == initialize_err(input_state)
    IN  /\ initial_state' = IF err = NoError THEN input_state
                            ELSE initial_state
        /\ last' = [op |-> "initialize", input_state |-> input_state,
                    err |-> err]
        /\ UNCHANGED <<config_vars, nb_braids, braids_history, measured,
                       unitary, drawer>>

\* The positions braid is called with: every integer from 0 to
\* nb_anyons + 1, and the float 1.5.
Positions == {IntArg(v) : v \in 0..(nb_anyons + 1)} \cup {FloatArg(3)}

Braid(n, m) ==
    /\ braid_err(Self, n, m) = NoError => nb_braids < MaxBraids
    /\ \E r \in {braid(Self, n, m)} :
        /\ unitary' = r.unitary
        /\ braids_history' = r.braids_history
        /\ nb_braids' = r.nb_braids
        /\ drawer' = r.drawer
        /\ last' = [op |-> "braid", n |-> n, m |-> m, err |-> r.err]
        /\ UNCHANGED <<config_vars, measured, initial_state>>

\* for _ in range(k): self.braid(n, m)
RECURSIVE braid_repeat(_, _, _, _)
braid_repeat(self, n, m, k) ==
    IF k = 0 THEN self
    ELSE LET r == braid(self, n, m)
         IN  IF r.err /= NoError THEN r ELSE braid_repeat(r, n, m, k - 1)

\* seq_positions with the sign of the power read the other way round.
seq_positions_swapped(ind, power) ==
    IF power > 0 THEN <<ind + 1, ind>> ELSE <<ind, ind + 1>>

\* The positions (n, m) braid_sequence computes for a pair (ind, power)
\* with power /= 0.
seq_positions(ind, power) ==
    IF power > 0 THEN <<ind, ind + 1>> ELSE <<ind + 1, ind>>

\* The for loop of braid_sequence from pair i of the list on.
RECURSIVE braid_sequence_from(_, _, _)
braid_sequence_from(self, seq, i) ==
    IF i > Len(seq) THEN self
    ELSE LET ind == seq[i][1]
             power == seq[i][2]
         IN  IF ~isinstance_int(ind) \/ ~isinstance_int(power)
             THEN [self EXCEPT !.err = PyValueError]
             ELSE IF ind.v < 1 THEN [self EXCEPT !.err = PyValueError]
             ELSE IF ind.v >= self.nb_anyons
                  THEN [self EXCEPT !.err = PyValueError]
             ELSE IF power.v = 0 THEN braid_sequence_from(self, seq, i + 1)
             ELSE LET nm == seq_positions(ind.v, power.v)
                      r == braid_repeat(self, IntArg(nm[1]), IntArg(nm[2]),
                                        Abs(power.v))
                  IN  IF r.err /= NoError THEN r
                      ELSE braid_sequence_from(r, seq, i + 1)

braid_sequence(self, seq) == braid_sequence_from(self, seq, 1)

\* The (index, power) pairs braid_sequence is called with: a forward, an
\* inverse, a repeated and an empty exchange, an index below 1, an index
\* that is not below nb_anyons, and a float power.
SeqPairs ==
    {<<IntArg(1), IntArg(1)>>, <<IntArg(nb_anyons - 1), IntArg(-1)>>,
     <<IntArg(1), IntArg(2)>>, <<IntArg(nb_anyons - 1), IntArg(0)>>,
     <<IntArg(0), IntArg(1)>>, <<IntArg(nb_anyons), IntArg(1)>>,
     <<IntArg(1), FloatArg(3)>>}

\* The lists braid_sequence is called with: of no, one or two pairs.
SeqInputs ==
    {<<>>} \cup {<<p>> : p \in SeqPairs}
           \cup {<<p, q>> : p \in SeqPairs, q \in SeqPairs}

\* An upper bound on the braids a call braid_sequence(seq) performs.
RECURSIVE SeqBraidsFrom(_, _)
SeqBraidsFrom(seq, i) ==
    IF i > Len(seq) THEN 0
    ELSE (IF seq[i][2].isint THEN Abs(seq[i][2].v) ELSE 0)
         + SeqBraidsFrom(seq, i + 1)

BraidSequence(seq) ==
    /\ nb_braids + SeqBraidsFrom(seq, 1) <= MaxBraids
    /\ \E r \in {braid_sequence(Self, seq)} :
        /\ unitary' = r.unitary
        /\ braids_history' = r.braids_history
        /\ nb_braids' = r.nb_braids
        /\ drawer' = r.drawer
        /\ last' = [op |-> "braid_sequence", seq |-> seq, err |-> r.err]
        /\ UNCHANGED <<config_vars, measured, initial_state>>

\* measure_err without the test of the measured flag.
measure_err_never == NoError

\* measure(): the exception it raises.
measure_err == IF measured THEN PyException ELSE NoError

Measure ==
    /\ measured' = IF measure_err = NoError THEN TRUE ELSE measured
    /\ drawer' = IF measure_err = NoError THEN DrawerMeasure(drawer)
                 ELSE drawer
    /\ last' = [op |-> "measure", err |-> measure_err]
    /\ UNCHANGED <<config_vars, nb_braids, braids_history, initial_state,
                   unitary>>

\* statevector() without the product by the unitary.
statevector_of_initial == initial_state

\* statevector(): self.__unitary @ self.__initial_state
statevector ==
    Vec(initial_state.ppm, MatVec(unitary, initial_state.v))

\* run(shots) on the state vector sv: the exception it raises.
run_err(sv) ==
    IF ~measured THEN PyException
    ELSE IF ~WithinOfOne(ExactNorm(sv.v), sv.ppm, ChoiceAtolPico)
         THEN PyValueError
    ELSE NoError

\* The basis indices (0-based) np.random.choice can draw: those of
\* non-zero probability.
Support(sv) ==
    {i - 1 : i \in {k \in 1..Len(sv.v) : Mul(sv.v[k], Conj(sv.v[k])) /= Zero}}

\* np.unique(memory, return_counts=True) as the dict str(idx) -> count;
\* the key is kept as the index.
Counts(memory) ==
    [i \in {memory[k] : k \in 1..Len(memory)} |->
        Cardinality({k \in 1..Len(memory) : memory[k] = i})]

Run(shots) ==
    /\ \E sv \in {statevector} :
        \E err \in {run_err(sv)} :
           \/ /\ err /= NoError
              /\ last' = [op |-> "run", shots |-> shots, err |-> err]
           \/ /\ err = NoError
              /\ \E memory \in [1..shots -> Support(sv)] :
                     last' = [op |-> "run", shots |-> shots, err |-> NoError,
                              memory |-> memory, counts |-> Counts(memory)]
    /\ UNCHANGED <<config_vars, nb_braids, braids_history, measured,
                   initial_state, unitary, drawer>>

\* statevector() as a call: it returns the product and assigns nothing.
Statevector ==
    /\ last' = [op |-> "statevector", err |-> NoError, result |-> statevector]
    /\ UNCHANGED <<config_vars, nb_braids, braids_history, measured,
                   initial_state, unitary, drawer>>

\* unitary(): returns self.__unitary and assigns nothing.
Unitary ==
    /\ last' = [op |-> "unitary", err |-> NoError, result |-> unitary]
    /\ UNCHANGED <<config_vars, nb_braids, braids_history, measured,
                   initial_state, unitary, drawer>>

\* A Python string is the sequence of its characters.  Digit(d) is the
\* character of the decimal digit d.
Digit(d) == <<"0", "1", "2", "3", "4", "5", "6", "7", "8", "9">>[d + 1]

\* str(k) of an integer k >= 0
RECURSIVE StrNat(_)
StrNat(k) == IF k < 10 THEN <<Digit(k)>>
             ELSE Append(StrNat(k \div 10), Digit(k % 10))

\* f"{k}" of an integer k
StrInt(k) == IF k < 0 THEN <<"-">> \o StrNat(0 - k) ELSE StrNat(k)

\* history_sigmas_to with the two tokens exchanged.
RECURSIVE history_sigmas_to_directions_exchanged(_, _)
history_sigmas_to_directions_exchanged(self, k) ==
    IF k = 0 THEN <<>>
    ELSE LET n == self.braids_history[k][1]
             m == self.braids_history[k][2]
         IN  Append(history_sigmas_to_directions_exchanged(self, k - 1),
                    IF m < n THEN <<"s">> \o StrInt(m)
                    ELSE <<"i", "s">> \o StrInt(n))

\* history("sigmas"): the for loop over the first k entries of the history.
RECURSIVE history_sigmas_to(_, _)
history_sigmas_to(self, k) ==
    IF k = 0 THEN <<>>
    ELSE LET n == self.braids_history[k][1]
             m == self.braids_history[k][2]
         IN  Append(history_sigmas_to(self, k - 1),
                    IF m < n THEN <<"i", "s">> \o StrInt(m)
                    ELSE <<"s">> \o StrInt(n))

history_sigmas(self) == history_sigmas_to(self, Len(self.braids_history))

\* history("latex"): the loop "for sigma in reversed(sigmas)" from element
\* i down to the first, with the loop's variables as arguments; the result
\* is the list power_sigmas after "Handling the last sigma".
RECURSIVE power_sigmas_from(_, _, _, _, _)
power_sigmas_from(sgs, i, last_sigma, power, power_sigmas) ==
    IF i = 0
    THEN IF power /= 0 THEN Append(power_sigmas, <<last_sigma, power>>)
         ELSE power_sigmas
    ELSE IF sgs[i] = last_sigma
         THEN power_sigmas_from(sgs, i - 1, last_sigma, power + 1, power_sigmas)
         ELSE power_sigmas_from(sgs, i - 1, sgs[i], 1,
                                Append(power_sigmas, <<last_sigma, power>>))

\* The list power_sigmas of history("latex"); last_sigma starts as
\* sigmas[-1], or None for an empty list.
power_sigmas_of(sgs) ==
    power_sigmas_from(sgs, Len(sgs),
                      IF Len(sgs) > 0 THEN sgs[Len(sgs)] ELSE <<>>, 0, <<>>)

\* The characters of r"\sigma_{"
SigmaOpen == <<"\\", "s", "i", "g", "m", "a", "_", "{">>

\* latex_factor with the exponent of an inverse written without its sign.
latex_factor_unsigned(sg, p) ==
    IF sg[1] = "i"
    THEN SigmaOpen \o SubSeq(sg, 3, Len(sg)) \o <<"}", "^", "{">>
             \o StrInt(p) \o <<"}">>
    ELSE SigmaOpen \o SubSeq(sg, 2, Len(sg)) \o <<"}">>
             \o (IF p > 1 THEN <<"^", "{">> \o StrInt(p) \o <<"}">>
                 ELSE <<>>)

\* The LaTeX text history("latex") adds for one pair (sigma, p).
latex_factor(sg, p) ==
    IF sg[1] = "i"
    THEN SigmaOpen \o SubSeq(sg, 3, Len(sg)) \o <<"}", "^", "{">>
             \o StrInt(0 - p) \o <<"}">>
    ELSE SigmaOpen \o SubSeq(sg, 2, Len(sg)) \o <<"}">>
             \o (IF p > 1 THEN <<"^", "{">> \o StrInt(p) \o <<"}">>
                 ELSE <<>>)

\* "Converting to LaTeX": the text of the first k pairs of power_sigmas.
RECURSIVE latex_to(_, _)
latex_to(power_sigmas, k) ==
    IF k = 0 THEN <<>>
    ELSE latex_to(power_sigmas, k - 1)
             \o latex_factor(power_sigmas[k][1], power_sigmas[k][2])

history_latex(self) ==
    LET power_sigmas == power_sigmas_of(history_sigmas(self))
    IN  <<"$", " ">> \o latex_to(power_sigmas, Len(power_sigmas)) \o <<"$">>

\* history(output): the exception it raises.
history_err(output) ==
    IF output \notin {"raw", "sigmas", "latex"} THEN PyValueError ELSE NoError

\* history(output): the value it returns.
history(self, output) ==
    IF output = "raw" THEN self.braids_history
    ELSE IF output = "sigmas" THEN history_sigmas(self)
    ELSE history_latex(self)

\* The formats history is called with: the three it knows and another.
Outputs == {"raw", "sigmas", "latex", "text"}

History(output) ==
    /\ last' = IF history_err(output) /= NoError
               THEN [op |-> "history", output |-> output,
                     err |-> history_err(output)]
               ELSE [op |-> "history", output |-> output, err |-> NoError,
                     result |-> history(Self, output)]
    /\ UNCHANGED <<config_vars, nb_braids, braids_history, measured,
                   initial_state, unitary, drawer>>

Next ==
    \/ \E input_state \in InputStates : Initialize(input_state)
    \/ \E n \in Positions, m \in Positions : Braid(n, m)
    \/ \E seq \in SeqInputs : BraidSequence(seq)
    \/ Measure
    \/ \E shots \in 0..MaxShots : Run(shots)

Spec == Init /\ [][Next]_vars

\* The operations of a circuit together with its read-only calls.
ViewNext ==
    \/ Next
    \/ Statevector
    \/ Unitary
    \/ \E output \in Outputs : History(output)

ViewSpec == Init /\ [][ViewNext]_vars

\* The longest history of the circuits whose history is read.
MaxHistory == 4

\* braid(n, m) with valid positions, on a circuit of fewer than
\* MaxHistory braids.
HistBraid(n, m) ==
    /\ nb_braids < MaxHistory
    /\ braid_err(Self, n, m) = NoError
    /\ \E r \in {braid(Self, n, m)} :
        /\ unitary' = r.unitary
        /\ braids_history' = r.braids_history
        /\ nb_braids' = r.nb_braids
        /\ drawer' = r.drawer
        /\ last' = [op |-> "braid", n |-> n, m |-> m, err |-> r.err]
        /\ UNCHANGED <<config_vars, measured, initial_state>>

HistNext ==
    \/ \E n \in 1..nb_anyons, m \in 1..nb_anyons :
           HistBraid(IntArg(n), IntArg(m))
    \/ \E output \in Outputs : History(output)

HistSpec == Init /\ [][HistNext]_vars

\* The same call braid(n, m) on the circuit of tqsim and on the one of
\* cqt_anyons.
TwinBraid(n, m) ==
    /\ nb_braids < MaxBraids /\ cqt.nb_braids < MaxBraids
    /\ \E r \in {braid(Self, n, m)} :
        /\ unitary' = r.unitary
        /\ braids_history' = r.braids_history
        /\ nb_braids' = r.nb_braids
        /\ drawer' = r.drawer
        /\ last' = [op |-> "braid", n |-> n, m |-> m, err |-> r.err]
    /\ cqt' = cqt_braid(cqt, n, m)
    /\ UNCHANGED <<nb_qudits, nb_anyons_per_qudit, nb_anyons, dim, sigmas,
                   gen, store, callers, loop, measured, initial_state>>

\* The most calls of measure() on one circuit.
MaxMeasures == 2

\* measure() on both circuits.
TwinMeasure ==
    /\ Len(cqt.drawer.calls) < cqt.nb_braids + MaxMeasures
    /\ measured' = IF measure_err = NoError THEN TRUE ELSE measured
    /\ drawer' = IF measure_err = NoError THEN DrawerMeasure(drawer)
                 ELSE drawer
    /\ last' = [op |-> "measure", err |-> measure_err]
    /\ cqt' = cqt_measure(cqt)
    /\ UNCHANGED <<nb_qudits, nb_anyons_per_qudit, nb_anyons, dim, sigmas,
                   gen, store, callers, loop, nb_braids, braids_history,
                   initial_state, unitary>>

TwinNext ==
    \/ \E n \in Positions, m \in Positions : TwinBraid(n, m)
    \/ TwinMeasure

TwinSpec == Init /\ [][TwinNext]_vars

----------------------------------------------------------------------------
(* tqsim/lib/basis_generator.py: generate_basis pass by pass.  examined    *)
(* lists the values of curr_comb that were turned into a state and handed  *)
(* to check_state.                                                         *)

\* The configurations generate_basis is called with.
LoopConfigs ==
    {<<1, 2>>, <<1, 3>>, <<1, 4>>, <<1, 5>>, <<2, 2>>, <<2, 3>>, <<2, 4>>}

\* "curr_state = gen_state(...); if check_state(curr_state):
\* basis.append(curr_state)" for the value comb of curr_comb.
LoopExamine(l, comb) ==
    LET curr_state == gen_state(comb, l.nb_qudits, l.nb_anyons_per_qudit - 1)
    IN  [l EXCEPT !.curr_comb = comb,
                  !.examined = Append(l.examined, comb),
                  !.basis = IF check_state(curr_state)
                            THEN Append(l.basis, curr_state) ELSE l.basis]

\* generate_basis(c[1], c[2]) up to the while loop.
LoopStart(c) ==
    /\ loop.pc = "idle"
    /\ LET nb_labels == c[1] * (c[2] - 1) + (c[1] - 1)
       IN  loop' = LoopExamine([LoopIdle EXCEPT !.pc = "while",
                                                !.nb_qudits = c[1],
                                                !.nb_anyons_per_qudit = c[2]],
                               [i \in 1..nb_labels |-> 0])
    /\ UNCHANGED <<circuit_vars, gen, store, callers, cqt>>

\* One pass of the while loop: curr_comb is not final_comb.
LoopPass ==
    /\ loop.pc = "while"
    /\ loop.curr_comb /= [i \in 1..Len(loop.curr_comb) |-> 1]
    /\ loop' = LoopExamine(loop, next_comb(loop.curr_comb))
    /\ UNCHANGED <<circuit_vars, gen, store, callers, cqt>>

\* The while loop ends, curr_comb being final_comb, and basis is returned.
LoopReturn ==
    /\ loop.pc = "while"
    /\ loop.curr_comb = [i \in 1..Len(loop.curr_comb) |-> 1]
    /\ loop' = [loop EXCEPT !.pc = "done"]
    /\ UNCHANGED <<circuit_vars, gen, store, callers, cqt>>

LoopNext ==
    \/ \E c \in LoopConfigs : LoopStart(c)
    \/ LoopPass
    \/ LoopReturn

LoopSpec == Init /\ [][LoopNext]_vars

\* A call that has started keeps running: nothing outside it is needed
\* for its next pass.
LoopFairSpec == LoopSpec /\ WF_vars(LoopPass) /\ WF_vars(LoopReturn)


----------------------------------------------------------------------------
(* Calls of the library functions generate_basis and                       *)
(* generate_braiding_operator, which tqsim exports.                        *)

\* The configurations (nb_qudits, nb_anyons_per_qudit) the generator
\* functions are called with, and those of them for which two operators
\* are generated together.
GenConfigs ==
    {<<1, 2>>, <<1, 3>>, <<1, 4>>, <<1, 5>>, <<1, 6>>,
     <<2, 2>>, <<2, 3>>, <<2, 4>>, <<3, 3>>}
PairConfigs == GenConfigs \ {<<2, 4>>, <<3, 3>>}

\* The arguments of the calls: a configuration and two operator indices
\* in 1..nb_anyons-1 (none when the configuration has a single operator
\* index: then i = j).  Of three qudits, the operator between the second
\* and the third is generated.
GenInputs ==
    {<<c, i, j>> \in GenConfigs \X (1..7) \X (1..7) :
        /\ i <= c[1] * c[2] - 1
        /\ j <= c[1] * c[2] - 1
        /\ c \in PairConfigs \/ i = j
        /\ c[1] = 3 => i = 2 * c[2]}

\* The arguments of the calls are chosen.
GenInput(c, i, j) ==
    /\ gen.pc = "idle"
    /\ gen' = [GenIdle EXCEPT !.pc = "input", !.nb_qudits = c[1],
                              !.nb_anyons_per_qudit = c[2],
                              !.i = i, !.j = j]
    /\ UNCHANGED <<circuit_vars, store, callers, cqt, loop>>

\* generate_basis(nb_qudits, nb_anyons_per_qudit) is called.
GenBasis ==
    /\ gen.pc = "input"
    /\ gen.basis = <<>>
    /\ gen' = [gen EXCEPT !.basis = generate_basis(gen.nb_qudits,
                                                   gen.nb_anyons_per_qudit)]
    /\ UNCHANGED <<circuit_vars, store, callers, cqt, loop>>

\* generate_braiding_operator(index, nb_qudits, nb_anyons_per_qudit) is
\* called for index i and for index j.
GenOperators ==
    /\ gen.pc = "input"
    /\ \E ei \in {generate_braiding_operator_err(
                       gen.i, gen.nb_qudits, gen.nb_anyons_per_qudit)},
          ej \in {generate_braiding_operator_err(
                       gen.j, gen.nb_qudits, gen.nb_anyons_per_qudit)} :
           IF ei /= NoError \/ ej /= NoError
           THEN gen' = [gen EXCEPT !.pc = "operators",
                                   !.err = IF ei /= NoError THEN ei ELSE ej]
           ELSE gen' = [gen EXCEPT
                           !.pc = "operators",
                           !.Gi = generate_braiding_operator(
                                      gen.i, gen.nb_qudits,
                                      gen.nb_anyons_per_qudit),
                           !.Gj = generate_braiding_operator(
                                      gen.j, gen.nb_qudits,
                                      gen.nb_anyons_per_qudit)]
    /\ UNCHANGED <<circuit_vars, store, callers, cqt, loop>>

GenNext ==
    \/ \E inp \in GenInputs : GenInput(inp[1], inp[2], inp[3])
    \/ GenBasis
    \/ GenOperators

GenSpec == Init /\ [][GenNext]_vars


----------------------------------------------------------------------------
(* tqsim/circuit.py: AnyonicCircuit.__init__ step by step, for callers     *)
(* that share the store.  A step is what a caller does between two         *)
(* accesses to a file of the store.                                        *)

\* AnyonicCircuit(key[1], key[2]) is called: the fields set before
\* __get_basis.  fresh: no file of the key exists at the call; later: a
\* construction for the key has completed before the call.
CtorStart(c, key) ==
    /\ callers[c].pc = "idle"
    /\ callers' = [callers EXCEPT ![c] =
           [CallerIdle EXCEPT
               !.pc = "get_basis", !.key = key,
               !.fresh = /\ store[key].basis.state = "absent"
                         /\ store[key].sigmas.state = "absent",
               !.later = \E o \in Callers \ {c} :
                            callers[o].pc = "done" /\ callers[o].key = key]]
    /\ UNCHANGED <<circuit_vars, gen, store, cqt, loop>>

\* The fields __init__ sets once __get_basis has returned basis.
WithBasis(caller, basis) ==
    [caller EXCEPT
        !.basis = basis, !.dim = Len(basis),
        !.initial_state =
            Vec(0, [i \in 1..Len(basis) |-> IF i = 1 THEN One ELSE Zero]),
        !.pc = "get_sigmas"]

\* The fields __init__ sets once __get_sigmas has returned sigmas.
WithSigmas(caller, sgs) ==
    [caller EXCEPT
        !.sigmas = sgs, !.unitary = Eye(caller.dim),
        !.drawer = DrawerInit(caller.key[1], caller.key[2]),
        !.pc = "done"]

\* CtorReadBasis with a complete file treated as an absent one.
CtorReadBasis_always_miss(c) ==
    LET caller == callers[c]
        file == store[caller.key].basis
    IN  /\ caller.pc = "get_basis"
        /\ callers' = [callers EXCEPT ![c] =
               IF file.state = "empty"
               THEN [caller EXCEPT !.pc = "failed", !.err = PyEOFError]
               ELSE [caller EXCEPT !.pc = "gen_basis"]]
        /\ UNCHANGED <<circuit_vars, gen, store, cqt, loop>>

\* __get_basis, the try block: open(filename, "rb") raises
\* FileNotFoundError, which is caught, when the file is absent;
\* pickle.load raises EOFError, which is not, when the file is empty.
CtorReadBasis(c) ==
    LET caller == callers[c]
        file == store[caller.key].basis
    IN  /\ caller.pc = "get_basis"
        /\ callers' = [callers EXCEPT ![c] =
               IF file.state = "absent" THEN [caller EXCEPT !.pc = "gen_basis"]
               ELSE IF file.state = "empty"
               THEN [caller EXCEPT !.pc = "failed", !.err = PyEOFError]
               ELSE [WithBasis(caller, file.data) EXCEPT
                        !.basis_loaded = TRUE]]
        /\ UNCHANGED <<circuit_vars, gen, store, cqt, loop>>

\* __get_basis, the except block up to open(filename, "wb"): the basis is
\* generated and the file created, or truncated when it exists.
CtorCreateBasis(c) ==
    LET caller == callers[c]
    IN  /\ caller.pc = "gen_basis"
        /\ callers' = [callers EXCEPT ![c] =
               [caller EXCEPT
                   !.basis = generate_basis(caller.key[1], caller.key[2]),
                   !.pc = "dump_basis"]]
        /\ store' = [store EXCEPT ![caller.key].basis = EmptyFile]
        /\ UNCHANGED <<circuit_vars, gen, cqt, loop>>

\* __get_basis, pickle.dump and the end of the with block; then the
\* initial state.
CtorDumpBasis(c) ==
    LET caller == callers[c]
    IN  /\ caller.pc = "dump_basis"
        /\ store' = [store EXCEPT
                        ![caller.key].basis = CompleteFile(caller.basis)]
        /\ callers' = [callers EXCEPT ![c] = WithBasis(caller, caller.basis)]
        /\ UNCHANGED <<circuit_vars, gen, cqt, loop>>

\* __get_sigmas, the try block; on a hit the construction ends.
CtorReadSigmas(c) ==
    LET caller == callers[c]
        file == store[caller.key].sigmas
    IN  /\ caller.pc = "get_sigmas"
        /\ callers' = [callers EXCEPT ![c] =
               IF file.state = "absent" THEN [caller EXCEPT !.pc = "gen_sigmas"]
               ELSE IF file.state = "empty"
               THEN [caller EXCEPT !.pc = "failed", !.err = PyEOFError]
               ELSE [WithSigmas(caller, file.data) EXCEPT
                        !.sigmas_loaded = TRUE]]
        /\ UNCHANGED <<circuit_vars, gen, store, cqt, loop>>

\* The for loop of __get_sigmas over index = 1 .. nb_anyons - 1, up to
\* index k: the exception it raises.
RECURSIVE get_sigmas_err_to(_, _)
get_sigmas_err_to(key, k) ==
    IF k = 0 THEN NoError
    ELSE IF get_sigmas_err_to(key, k - 1) /= NoError
         THEN get_sigmas_err_to(key, k - 1)
         ELSE generate_braiding_operator_err(k, key[1], key[2])

\* The for loop of __get_sigmas up to index k: the list sigmas.
RECURSIVE get_sigmas_to(_, _)
get_sigmas_to(key, k) ==
    IF k = 0 THEN <<>>
    ELSE Append(get_sigmas_to(key, k - 1),
                generate_braiding_operator(k, key[1], key[2]))

\* __get_sigmas, the except block up to open(filename, "wb"): the
\* operators are generated, which may raise, and the file is created or
\* truncated.
CtorCreateSigmas(c) ==
    LET caller == callers[c]
        n == caller.key[1] * caller.key[2] - 1
        err == get_sigmas_err_to(caller.key, n)
    IN  /\ caller.pc = "gen_sigmas"
        /\ IF err /= NoError
           THEN /\ callers' = [callers EXCEPT ![c] =
                       [caller EXCEPT !.pc = "failed", !.err = err]]
                /\ store' = store
           ELSE /\ callers' = [callers EXCEPT ![c] =
                       [caller EXCEPT
                           !.sigmas = get_sigmas_to(caller.key, n),
                           !.pc = "dump_sigmas"]]
                /\ store' = [store EXCEPT ![caller.key].sigmas = EmptyFile]
        /\ UNCHANGED <<circuit_vars, gen, cqt, loop>>

\* __get_sigmas, pickle.dump and the end of the with block; then the
\* unitary and the drawer.
CtorDumpSigmas(c) ==
    LET caller == callers[c]
    IN  /\ caller.pc = "dump_sigmas"
        /\ store' = [store EXCEPT
                        ![caller.key].sigmas = CompleteFile(caller.sigmas)]
        /\ callers' = [callers EXCEPT ![c] = WithSigmas(caller, caller.sigmas)]
        /\ UNCHANGED <<circuit_vars, gen, cqt, loop>>

CtorNext ==
    \E c \in Callers :
        \/ \E key \in CtorConfigs : CtorStart(c, key)
        \/ CtorReadBasis(c)
        \/ CtorCreateBasis(c)
        \/ CtorDumpBasis(c)
        \/ CtorReadSigmas(c)
        \/ CtorCreateSigmas(c)
        \/ CtorDumpSigmas(c)

CtorSpec == Init /\ [][CtorNext]_vars

----------------------------------------------------------------------------
(* Properties of the circuit engine                                        *)

\* The step is a call of operation op.
Called(op) == last'.op = op

\* Both arguments of the braid call of this step are integers.
BraidIntArgs == last'.n.isint /\ last'.m.isint

\* Both positions of the braid call of this step lie in [1, nb_anyons].
BraidInRange ==
    /\ BraidIntArgs
    /\ last'.n.v >= 1 /\ last'.n.v <= nb_anyons
    /\ last'.m.v >= 1 /\ last'.m.v <= nb_anyons

\* The number of measure calls the drawer has received.
MeasureCalls(d) ==
    Cardinality({k \in 1..Len(d.calls) : d.calls[k] = <<"measure">>})

\* C1: braid on a measured circuit fails with the InvalidOperation kind
\* (Exception) whatever its arguments are (non-integer, out of range or
\* non-adjacent ones included) and leaves unitary, history, braid_count and
\* the drawer unchanged.
C1_BraidOnMeasured ==
    [][(Called("braid") /\ measured) =>
           /\ last'.err = PyException
           /\ UNCHANGED <<unitary, braids_history, nb_braids, drawer>>]_vars

\* A braid with a float and an out-of-range position was rejected as an
\* invalid operation on a measured circuit.
C1_Witness ==
    /\ measured
    /\ last.op = "braid"
    /\ ~last.n.isint
    /\ last.m = IntArg(0)
    /\ last.err = PyException

\* C2: once a braid has succeeded (history is non-empty), every initialize
\* fails with the InvalidOperation kind whatever vector is passed,
\* initial_state never changes again, and history never becomes empty
\* again, also when later braids bring unitary back to the identity.
C2_InitializeAfterBraid ==
    [][braids_history /= <<>> =>
           /\ braids_history' /= <<>>
           /\ initial_state' = initial_state
           /\ Called("initialize") => last'.err = PyException]_vars

\* initialize was rejected for a valid vector on a circuit whose braids
\* have brought unitary back to the identity.
C2_Witness ==
    /\ last.op = "initialize"
    /\ last.err = PyException
    /\ braids_history /= <<>>
    /\ unitary = Eye(dim)
    /\ ~measured
    /\ Len(last.input_state.v) = dim
    /\ last.input_state.ppm = 0
    /\ ExactNorm(last.input_state.v) = One

\* C3: initialize on a measured circuit fails with the InvalidOperation
\* kind, also when no braid was ever performed, and leaves initial_state
\* unchanged.
C3_InitializeAfterMeasure ==
    [][(Called("initialize") /\ measured) =>
           /\ last'.err = PyException
           /\ initial_state' = initial_state]_vars

\* C4: a second measure fails with the InvalidOperation kind, leaves
\* measured true and every other field unchanged, and the drawer never
\* receives a second measure call.
C4_SecondMeasure ==
    [][/\ (Called("measure") /\ measured) =>
              /\ last'.err = PyException
              /\ measured'
              /\ UNCHANGED <<config_vars, nb_braids, braids_history,
                             initial_state, unitary, drawer>>
       /\ MeasureCalls(drawer') <= 1]_vars

\* measure was rejected on a measured circuit whose drawer holds the one
\* measure call.
C4_Witness ==
    /\ last.op = "measure"
    /\ last.err = PyException
    /\ measured
    /\ MeasureCalls(drawer) = 1

\* C5: run is legal exactly in the Measured state: on an unmeasured circuit
\* it fails with the InvalidOperation kind, on a measured circuit it
\* succeeds.
C5_RunLegalIffMeasured ==
    last.op = "run" =>
        IF measured THEN last.err = NoError ELSE last.err = PyException

C7_OutOfRange ==
    [][(Called("braid") /\ ~measured /\ BraidIntArgs /\ ~BraidInRange) =>
           /\ last'.err = PyValueError
           /\ UNCHANGED <<config_vars, nb_braids, braids_history, measured,
                          initial_state, unitary, drawer>>]_vars

\* The non-adjacent out-of-range pair (0, nb_anyons) was rejected with a
\* ValueError on an unmeasured circuit that has braids.
C7_Witness ==
    /\ ~measured
    /\ last.op = "braid"
    /\ last.n = IntArg(0)
    /\ last.m = IntArg(nb_anyons)
    /\ last.err = PyValueError
    /\ nb_braids > 0

\* C8: on an unmeasured circuit, braid(n, m) with integers n, m in
\* [1, nb_anyons] and |n - m| = 1 succeeds; k = min(n, m) is a generator
\* index in 1..nb_anyons-1; unitary becomes G[k] unitary when n < m and
\* G[k]^dagger unitary when n > m; (n, m) is appended to history,
\* braid_count grows by one, initial_state and measured keep their values.
C8_BraidEffect ==
    [][(Called("braid") /\ ~measured /\ BraidInRange
            /\ Abs(last'.n.v - last'.m.v) = 1) =>
           LET n == last'.n.v
               m == last'.m.v
               k == IF n < m THEN n ELSE m
           IN  /\ last'.err = NoError
               /\ k \in 1..(nb_anyons - 1)
               /\ k \in DOMAIN sigmas
               /\ unitary' = MatMul(IF n < m THEN sigmas[k]
                                    ELSE ConjTranspose(sigmas[k]), unitary)
               /\ braids_history' = Append(braids_history, <<n, m>>)
               /\ nb_braids' = nb_braids + 1
               /\ UNCHANGED <<initial_state, measured>>]_vars

\* A braid (n, m) with n > m succeeded after a forward braid and left a
\* unitary that is not the identity.
C8_Witness ==
    /\ last.op = "braid"
    /\ last.err = NoError
    /\ last.n.v > last.m.v
    /\ nb_braids = 2
    /\ braids_history[1][1] < braids_history[1][2]
    /\ unitary /= Eye(dim)

\* C9: a braid_sequence call that fails leaves unitary, history,
\* braid_count and the drawer as they were before the call.
C9_FailedSequenceChangesNothing ==
    [][(Called("braid_sequence") /\ last'.err /= NoError) =>
           UNCHANGED <<unitary, braids_history, nb_braids, drawer>>]_vars

\* The (n, m) pairs of the braid calls a list of (index, power) pairs asks
\* for, from pair i on: power > 0 gives power times (index, index + 1),
\* power < 0 gives |power| times (index + 1, index), power = 0 nothing.
RECURSIVE Copies(_, _)
Copies(x, k) == IF k = 0 THEN <<>> ELSE <<x>> \o Copies(x, k - 1)

RECURSIVE ExpectedBraids(_, _)
ExpectedBraids(seq, i) ==
    IF i > Len(seq) THEN <<>>
    ELSE LET ind == seq[i][1].v
             power == seq[i][2].v
         IN  (IF power > 0 THEN Copies(<<ind, ind + 1>>, power)
              ELSE IF power < 0 THEN Copies(<<ind + 1, ind>>, 0 - power)
              ELSE <<>>)
             \o ExpectedBraids(seq, i + 1)

\* The sum of |power| over a list of (index, power) pairs from pair i on.
RECURSIVE SumAbsPowers(_, _)
SumAbsPowers(seq, i) ==
    IF i > Len(seq) THEN 0
    ELSE Abs(seq[i][2].v) + SumAbsPowers(seq, i + 1)

\* The unitary after the braid calls of the list bs from call i on.
RECURSIVE UnitaryAfter(_, _, _)
UnitaryAfter(u, bs, i) ==
    IF i > Len(bs) THEN u
    ELSE LET n == bs[i][1]
             m == bs[i][2]
         IN  UnitaryAfter(MatMul(IF n < m THEN sigmas[n]
                                 ELSE ConjTranspose(sigmas[m]), u),
                          bs, i + 1)

\* C10: a successful braid_sequence call has performed, in list order, p
\* calls braid(i, i+1) for a pair (i, p) with p > 0, |p| calls
\* braid(i+1, i) for p < 0 and none for p = 0: history has grown by exactly
\* those (n, m) pairs in that order, braid_count and the length of history
\* by the sum of |p|, and unitary is the result of those braids.
C10_SequenceOrder ==
    [][(Called("braid_sequence") /\ last'.err = NoError) =>
           LET bs == ExpectedBraids(last'.seq, 1)
               total == SumAbsPowers(last'.seq, 1)
           IN  /\ braids_history' = braids_history \o bs
               /\ Len(braids_history') = Len(braids_history) + total
               /\ nb_braids' = nb_braids + total
               /\ unitary' = UnitaryAfter(unitary, bs, 1)]_vars

\* braid_sequence([(1, 1), (nb_anyons - 1, -1)]) succeeded on a fresh
\* circuit.
C10_Witness ==
    /\ last.op = "braid_sequence"
    /\ last.err = NoError
    /\ last.seq = <<<<IntArg(1), IntArg(1)>>,
                    <<IntArg(nb_anyons - 1), IntArg(-1)>>>>
    /\ braids_history = <<<<1, 2>>, <<nb_anyons, nb_anyons - 1>>>>
    /\ nb_braids = 2

\* The step is a successful braid(m, n) that directly follows a successful
\* braid(n, m).
ReverseOfLastBraid ==
    /\ last.op = "braid" /\ last.err = NoError
    /\ Called("braid") /\ last'.err = NoError
    /\ last'.n = last.m /\ last'.m = last.n

\* C11: braid(n, m) immediately followed by braid(m, n) returns unitary to
\* the value it had before the two calls: the transform of the first call
\* applied to the unitary after the second gives the unitary between the
\* two, and on a fresh circuit the unitary is the identity again; history
\* and braid_count record both calls.
C11_BraidRoundTrip ==
    [][ReverseOfLastBraid =>
           LET n == last.n.v
               m == last.m.v
               k == IF n < m THEN n ELSE m
               first == IF n < m THEN sigmas[k] ELSE ConjTranspose(sigmas[k])
               len == Len(braids_history)
           IN  /\ MatMul(first, unitary') = unitary
               /\ len = 1 => unitary' = Eye(dim)
               /\ braids_history[len] = <<n, m>>
               /\ braids_history' = Append(braids_history, <<m, n>>)
               /\ nb_braids' = nb_braids + 1]_vars

\* braid(nb_anyons, nb_anyons - 1) then braid(nb_anyons - 1, nb_anyons) on
\* a fresh circuit: two braids recorded, unitary the identity.
C11_Witness ==
    /\ last.op = "braid"
    /\ last.err = NoError
    /\ braids_history = <<<<nb_anyons, nb_anyons - 1>>,
                          <<nb_anyons - 1, nb_anyons>>>>
    /\ nb_braids = 2
    /\ unitary = Eye(dim)

\* The squared norm of the vector of this step's initialize call is 1
\* within the tolerance of np.isclose: 1e-8 + 1e-5.
InitializeNormOk ==
    WithinOfOne(ExactNorm(last'.input_state.v), last'.input_state.ppm,
                IsCloseAtolPico + IsCloseRtolPico)

\* C12: on a circuit with no braids, initialize(v) fails with the
\* ValueInvalid kind (ValueError) when the number of components of v
\* differs from dim or the squared norm of v is not 1 within tolerance, and
\* initial_state keeps its value; otherwise it succeeds and only
\* initial_state changes (to v).
C12_InitializeValidation ==
    [][(Called("initialize") /\ nb_braids = 0) =>
           IF Len(last'.input_state.v) /= dim \/ ~InitializeNormOk
           THEN /\ last'.err = PyValueError
                /\ initial_state' = initial_state
                /\ UNCHANGED <<config_vars, nb_braids, braids_history,
                               measured, unitary, drawer>>
           ELSE /\ last'.err = NoError
                /\ initial_state' = last'.input_state
                /\ UNCHANGED <<config_vars, nb_braids, braids_history,
                               measured, unitary, drawer>>]_vars

\* After a successful initialize with a vector that is not the default,
\* a vector of dim + 2 components was rejected and the stored vector kept.
C12_Witness ==
    /\ last.op = "initialize"
    /\ last.err = PyValueError
    /\ Len(last.input_state.v) = dim + 2
    /\ nb_braids = 0
    /\ initial_state.v[1] = Zero
    /\ Len(initial_state.v) = dim

\* The sum of the values of a counts mapping.
RECURSIVE SumCounts(_, _)
SumCounts(counts, keys) ==
    IF keys = {} THEN 0
    ELSE LET k == CHOOSE x \in keys : TRUE
         IN  counts[k] + SumCounts(counts, keys \ {k})

\* C13: on a measured circuit, run(shots) returns a memory of exactly
\* shots samples, each a basis index in 0..dim-1 of non-zero probability
\* |statevector[i]|^2, and a counts mapping whose keys are exactly the
\* indices that occur in memory and whose values sum to shots; run changes
\* no field of the circuit.
C13_RunResult ==
    [][(Called("run") /\ measured) =>
           /\ last'.err = NoError
           /\ Len(last'.memory) = last'.shots
           /\ \A k \in 1..Len(last'.memory) :
                  /\ last'.memory[k] \in 0..(dim - 1)
                  /\ LET a == statevector.v[last'.memory[k] + 1]
                     IN  Mul(a, Conj(a)) /= Zero
           /\ DOMAIN last'.counts
                  = {last'.memory[k] : k \in 1..Len(last'.memory)}
           /\ SumCounts(last'.counts, DOMAIN last'.counts) = last'.shots
           /\ UNCHANGED <<config_vars, nb_braids, braids_history, measured,
                          initial_state, unitary, drawer>>]_vars

\* The Fibonacci sequence 2, 3, 5, 8, 13, ... indexed from 2.
RECURSIVE Fibonacci(_)
Fibonacci(a) ==
    IF a = 2 THEN 2 ELSE IF a = 3 THEN 3
    ELSE Fibonacci(a - 1) + Fibonacci(a - 2)

\* C14: generate_basis returns 3 states for (1 qudit, 3 anyons), 5 for
\* (1, 4) and 34 for (2, 4); for a single qudit of a anyons, a = 2, 3, 4,
\* 5, 6, the size of the basis is the Fibonacci number 2, 3, 5, 8, 13.
C14_BasisSize ==
    gen.basis /= <<>> =>
        LET q == gen.nb_qudits
            a == gen.nb_anyons_per_qudit
            size == Len(gen.basis)
        IN  /\ (q = 1 /\ a = 3) => size = 3
            /\ (q = 1 /\ a = 4) => size = 5
            /\ (q = 2 /\ a = 4) => size = 34
            /\ q = 1 => size = Fibonacci(a)

\* generate_basis(2, 4) has returned 34 states, each of two qudits of
\* three labels and one root.
C14_Witness ==
    /\ gen.nb_qudits = 2
    /\ gen.nb_anyons_per_qudit = 4
    /\ Len(gen.basis) = 34
    /\ \A k \in 1..34 :
           /\ Len(gen.basis[k].qudits) = 2
           /\ Len(gen.basis[k].qudits[1]) = 3
           /\ Len(gen.basis[k].roots) = 1

\* M is a square matrix of d rows and d columns.
IsSquare(M, d) == Len(M) = d /\ \A r \in 1..d : Len(M[r]) = d

\* C15: for every configuration with nb_qudits >= 1 and
\* nb_anyons_per_qudit >= 2, generate_braiding_operator succeeds for every
\* index in 1..nb_anyons-1, the indices between two qudits included, and
\* returns a square matrix of dim rows, dim the size of the basis.
C15_OperatorGeneration ==
    (gen.pc = "operators" /\ gen.nb_qudits >= 1
        /\ gen.nb_anyons_per_qudit >= 2) =>
        LET d == Len(generate_basis(gen.nb_qudits, gen.nb_anyons_per_qudit))
        IN  /\ gen.err = NoError
            /\ IsSquare(gen.Gi, d)
            /\ IsSquare(gen.Gj, d)

\* Two operators were generated, without an exception.
OperatorsGenerated == gen.pc = "operators" /\ gen.err = NoError

\* C18: every generated braiding operator G is unitary: G times its
\* conjugate transpose is the identity matrix, for one and two qudits of
\* three and four anyons (and one qudit of 2, 5 and 6, and the operator
\* between the second and the third of three qudits of three).
C18_Unitary ==
    OperatorsGenerated =>
        /\ MatMul(gen.Gi, ConjTranspose(gen.Gi)) = Eye(Len(gen.Gi))
        /\ MatMul(gen.Gj, ConjTranspose(gen.Gj)) = Eye(Len(gen.Gj))

\* The operator of index 4 of two qudits of four anyons, which exchanges
\* the last anyon of the first qudit and the first of the second, was
\* generated: a matrix of 34 rows that is not diagonal.
C18_Witness ==
    /\ OperatorsGenerated
    /\ gen.nb_qudits = 2 /\ gen.nb_anyons_per_qudit = 4
    /\ gen.i = 4
    /\ Len(gen.Gi) = 34
    /\ \E r \in 1..34 : \E c \in 1..34 : r /= c /\ gen.Gi[r][c] /= Zero

C19_WitnessCommute ==
    /\ OperatorsGenerated
    /\ gen.nb_qudits = 2 /\ gen.nb_anyons_per_qudit = 3
    /\ gen.i = 3 /\ gen.j = 5
    /\ gen.Gi /= Eye(13) /\ gen.Gj /= Eye(13)

\* A construction for the key of caller c is under way in another caller.
OtherInProgress(c) ==
    \E o \in Callers \ {c} :
        /\ callers[o].key = callers[c].key
        /\ callers[o].pc \notin {"idle", "done", "failed"}

\* C16: two constructions of the same configuration that both start with no
\* file of the configuration in the store, and whose generation raises
\* nothing, both complete without an error whatever the interleaving of
\* their reads, generations and writes, and once both are complete they
\* hold the same basis and the same operators.
C16_BenignRace ==
    \A c1 \in Callers : \A c2 \in Callers \ {c1} :
        (/\ callers[c1].pc /= "idle" /\ callers[c2].pc /= "idle"
         /\ callers[c1].key = callers[c2].key
         /\ callers[c1].fresh /\ callers[c2].fresh
         /\ callers[c1].key[2] >= 3)
        => /\ callers[c1].err = NoError
           /\ callers[c2].err = NoError
           /\ (callers[c1].pc = "done" /\ callers[c2].pc = "done")
                  => /\ callers[c1].basis = callers[c2].basis
                     /\ callers[c1].sigmas = callers[c2].sigmas

\* C17: once a construction for a key has completed and no other one for
\* the key is under way, the store holds the complete basis and operators
\* of the key; a construction that starts after one for its key has
\* completed only reads the store: it never generates or writes, raises
\* nothing, and ends with the basis and the operators it loaded.
C17_GenerateOnce ==
    \A c \in Callers :
        LET caller == callers[c]
            files == store[caller.key]
        IN  /\ (caller.pc = "done" /\ ~OtherInProgress(c))
                   => /\ files.basis = CompleteFile(caller.basis)
                      /\ files.sigmas = CompleteFile(caller.sigmas)
            /\ caller.pc = "done"
                   => /\ files.basis.state /= "absent"
                      /\ files.sigmas.state /= "absent"
            /\ caller.later
                   => /\ caller.pc \in {"get_basis", "get_sigmas", "done"}
                      /\ caller.err = NoError
                      /\ caller.pc = "done"
                             => /\ caller.basis_loaded
                                /\ caller.sigmas_loaded
                                /\ caller.basis = files.basis.data
                                /\ caller.sigmas = files.sigmas.data

\* A construction that started after another one for the same key had
\* completed has itself completed, with three basis states loaded.
C17_Witness ==
    \E c \in Callers :
        /\ callers[c].later
        /\ callers[c].pc = "done"
        /\ callers[c].basis_loaded /\ callers[c].sigmas_loaded
        /\ callers[c].dim = 3 /\ Len(callers[c].sigmas) = 2

\* C20: the calls the drawer has received are one braid(m, n) per entry
\* (n, m) of history, in the order of history, followed by one measure
\* once the circuit is measured and by nothing else; a failed call, which
\* adds no entry to history, therefore adds no call to the drawer.
C20_DrawerEvents ==
    LET len == Len(braids_history)
    IN  /\ Len(drawer.calls) = len + (IF measured THEN 1 ELSE 0)
        /\ \A k \in 1..len :
               drawer.calls[k] =
                   <<"braid", braids_history[k][2], braids_history[k][1]>>
        /\ measured => drawer.calls[len + 1] = <<"measure">>
        /\ MeasureCalls(drawer) = (IF measured THEN 1 ELSE 0)

\* Two different braids were applied and measured, and the last call, a
\* braid, failed: the drawer holds the two braids and the measure.
C20_Witness ==
    /\ Len(braids_history) = 2
    /\ braids_history[1] /= braids_history[2]
    /\ measured
    /\ last.op = "braid" /\ last.err /= NoError
    /\ drawer.calls = <<<<"braid", braids_history[1][2], braids_history[1][1]>>,
                        <<"braid", braids_history[2][2], braids_history[2][1]>>,
                        <<"measure">>>>

\* A read-only call: statevector(), unitary(), or history(output) with one
\* of the three formats.
ReadOnlyCall ==
    \/ Called("statevector")
    \/ Called("unitary")
    \/ Called("history") /\ last'.output \in {"raw", "sigmas", "latex"}

\* C21: statevector(), unitary() and history(output) with one of the three
\* formats raise nothing in whatever state they are called (no braid yet,
\* braids applied, measured) and leave initial_state, unitary, history,
\* braid_count and measured as they were; statevector() returns unitary
\* applied to initial_state, and unitary() returns unitary.
C21_ReadOnlyCalls ==
    [][/\ ReadOnlyCall
           => /\ last'.err = NoError
              /\ UNCHANGED <<initial_state, unitary, braids_history,
                             nb_braids, measured>>
       /\ Called("statevector")
           => /\ last'.result.v = MatVec(unitary, initial_state.v)
              /\ last'.result.ppm = initial_state.ppm
       /\ Called("unitary") => last'.result = unitary]_vars

\* statevector() was called on a measured circuit with two braids and an
\* initial state other than the default one, and returned a vector other
\* than the initial state.
C21_Witness ==
    /\ last.op = "statevector"
    /\ measured
    /\ Len(braids_history) = 2
    /\ initial_state.v[1] = Zero
    /\ last.result /= initial_state

\* The step is a call braid(n, m) that succeeded on both circuits.
BothBraided ==
    /\ Called("braid") /\ last'.err = NoError /\ cqt'.err = NoError

\* C22 as stated: for the same successful call braid(n, m) the two
\* circuits append the pair in opposite orders, and where one of them
\* left-multiplies unitary by the generator the other left-multiplies it
\* by the generator's inverse.
C22_BothConventionsSwapped ==
    [][BothBraided =>
          LET n == last'.n.v  m == last'.m.v  k == IF n < m THEN n ELSE m
          IN  /\ braids_history' = Append(braids_history, <<n, m>>)
              /\ cqt'.braids_history = Append(cqt.braids_history, <<m, n>>)
              /\ (unitary' = MatMul(sigmas[k], unitary))
                     <=> (cqt'.unitary
                             = MatMul(ConjTranspose(cqt.sigmas[k]), cqt.unitary))
              /\ (unitary' = MatMul(ConjTranspose(sigmas[k]), unitary))
                     <=> (cqt'.unitary = MatMul(cqt.sigmas[k], cqt.unitary))]_vars

\* C22, amended: for the same successful call braid(n, m) the two circuits
\* append the pair in opposite orders, (n, m) in tqsim and (m, n) in
\* cqt_anyons, and both left-multiply unitary by generator n when n < m and
\* by the inverse of generator m when n > m.
C22_HistoryOrderSwapped ==
    [][BothBraided =>
          LET n == last'.n.v  m == last'.m.v
          IN  /\ braids_history' = Append(braids_history, <<n, m>>)
              /\ cqt'.braids_history = Append(cqt.braids_history, <<m, n>>)
              /\ n < m => /\ unitary' = MatMul(sigmas[n], unitary)
                          /\ cqt'.unitary = MatMul(cqt.sigmas[n], cqt.unitary)
              /\ n > m => /\ unitary' = MatMul(ConjTranspose(sigmas[m]), unitary)
                          /\ cqt'.unitary
                                = MatMul(ConjTranspose(cqt.sigmas[m]), cqt.unitary)
              /\ cqt'.unitary = unitary']_vars

\* Both circuits went through braid(1, 2) and braid(3, 2): their histories
\* hold the pairs in opposite orders and their unitaries are the same,
\* other than the identity.
C22_Witness ==
    /\ braids_history = <<<<1, 2>>, <<3, 2>>>>
    /\ cqt.braids_history = <<<<2, 1>>, <<2, 3>>>>
    /\ cqt.unitary = unitary
    /\ unitary /= Eye(dim)

\* The charges two charges can fuse to under the Fibonacci rule: the
\* vacuum 0 is neutral, and two charges 1 fuse to either charge.
Fusions(a, b) ==
    IF a = 0 THEN {b} ELSE IF b = 0 THEN {a} ELSE {0, 1}

\* Every label assignment of a configuration: q sequences of a - 1 binary
\* labels and q - 1 binary root labels.
Assignments(q, a) ==
    {[qudits |-> qs, roots |-> rs] :
        qs \in [1..q -> [1..(a - 1) -> {0, 1}]], rs \in [1..(q - 1) -> {0, 1}]}

\* The assignment obeys the fusion rule at every step of every qudit chain
\* (charge 1 fused with charge 1 first, then the running label with charge
\* 1) and at every step of the root chain (the first qudit's last label
\* with the second's, then the running root with the next qudit's last
\* label).
ObeysFusion(state) ==
    LET q == Len(state.qudits)
        final(k) == state.qudits[k][Len(state.qudits[k])]
    IN  /\ \A k \in 1..q : \A j \in 1..Len(state.qudits[k]) :
               state.qudits[k][j]
                   \in Fusions(IF j = 1 THEN 1 ELSE state.qudits[k][j - 1], 1)
        /\ \A i \in 1..Len(state.roots) :
               state.roots[i]
                   \in Fusions(IF i = 1 THEN final(1) ELSE state.roots[i - 1],
                               final(i + 1))

\* C23: the basis generate_basis(q, a) returns holds exactly the label
\* assignments of the configuration that obey the fusion rule at every
\* step of every qudit chain and of the root chain: every such assignment
\* is in it, nothing else is, and none is in it twice.
C23_BasisIsTheValidAssignments ==
    loop.pc = "done" =>
        LET returned == {loop.basis[i] : i \in 1..Len(loop.basis)}
        IN  /\ returned = {state \in Assignments(loop.nb_qudits,
                                                 loop.nb_anyons_per_qudit) :
                              ObeysFusion(state)}
            /\ Cardinality(returned) = Len(loop.basis)

\* generate_basis(2, 4) has returned its 34 states, having rejected
\* assignments whose qudit chains are valid and whose root is not.
C23_Witness ==
    /\ loop.pc = "done"
    /\ loop.nb_qudits = 2 /\ loop.nb_anyons_per_qudit = 4
    /\ Len(loop.basis) = 34
    /\ \E state \in Assignments(2, 4) :
           /\ check_state_roots_unchecked(state)
           /\ ~ObeysFusion(state)

\* The labels of a state in the order gen_state reads them from the
\* counter: the qudits' labels, qudit after qudit, then the roots.
Labels(state) ==
    LET q == Len(state.qudits)
        len == Len(state.qudits[1])
    IN  [i \in 1..(q * len + Len(state.roots)) |->
            IF i <= q * len
            THEN state.qudits[((i - 1) \div len) + 1][((i - 1) % len) + 1]
            ELSE state.roots[i - q * len]]

\* The number a binary counter shows whose bit i, the first the least
\* significant, is labels[i].
RECURSIVE CounterValue(_, _)
CounterValue(labels, k) ==
    IF k = 0 THEN 0
    ELSE CounterValue(labels, k - 1) + labels[k] * 2 ^ (k - 1)

ValueOf(state) == CounterValue(Labels(state), Len(Labels(state)))

\* C24: the basis generate_basis(q, a) returns is a function of q and a,
\* and lists the valid assignments by increasing value of a binary counter
\* whose least significant bit is the first label of the first qudit and
\* whose most significant bits are the roots; its first state, which the
\* default initial state of a circuit is the unit vector of, is the valid
\* assignment of least counter value.
C24_CounterOrder ==
    loop.pc = "done" =>
        /\ loop.basis = generate_basis(loop.nb_qudits, loop.nb_anyons_per_qudit)
        /\ \A i \in 1..Len(loop.basis) : \A j \in 1..Len(loop.basis) :
               i < j => ValueOf(loop.basis[i]) < ValueOf(loop.basis[j])
        /\ \A state \in Assignments(loop.nb_qudits, loop.nb_anyons_per_qudit) :
               ObeysFusion(state) => ValueOf(loop.basis[1]) <= ValueOf(state)
        /\ initial_state.v = [i \in 1..dim |-> IF i = 1 THEN One ELSE Zero]

\* generate_basis(2, 3) has returned: its first state is not the all-zero
\* assignment, and two states with the same qudit labels and different
\* roots have states with other qudit labels between them.
C24_Witness ==
    /\ loop.pc = "done"
    /\ loop.nb_qudits = 2 /\ loop.nb_anyons_per_qudit = 3
    /\ ValueOf(loop.basis[1]) > 0
    /\ \E i \in 1..Len(loop.basis) : \E j \in 1..Len(loop.basis) :
           /\ i + 1 < j
           /\ loop.basis[i].qudits = loop.basis[j].qudits
           /\ loop.basis[i].roots /= loop.basis[j].roots
           /\ loop.basis[i + 1].qudits /= loop.basis[i].qudits

\* The binary assignments generate_basis has examined so far: the first is
\* the all-zero one, no one was examined twice, and once the function has
\* returned they are all the 2^L assignments, the all-one one last.
ExaminedOnce ==
    LET nb_labels == loop.nb_qudits * (loop.nb_anyons_per_qudit - 1)
                         + (loop.nb_qudits - 1)
        examined == loop.examined
    IN  loop.pc /= "idle" =>
            /\ nb_labels >= 1 /\ loop.nb_anyons_per_qudit >= 2
            /\ examined[1] = [i \in 1..nb_labels |-> 0]
            /\ \A i \in 1..Len(examined) : \A j \in 1..Len(examined) :
                   examined[i] = examined[j] => i = j
            /\ loop.pc = "done" =>
                   /\ Len(examined) = 2 ^ nb_labels
                   /\ {examined[i] : i \in 1..Len(examined)}
                          = [1..nb_labels -> {0, 1}]
                   /\ examined[Len(examined)] = [i \in 1..nb_labels |-> 1]

\* C30: for a configuration with at least one label and at least two
\* anyons per qudit, a call of generate_basis returns, and by then it has
\* examined each of the 2^L binary assignments exactly once, the all-zero
\* one first and the all-one one last.
C30_Terminates ==
    /\ []ExaminedOnce
    /\ (loop.pc = "while") ~> (loop.pc = "done")

\* generate_basis(2, 4) has returned after examining 128 assignments.
C30_Witness ==
    /\ loop.pc = "done"
    /\ loop.nb_qudits = 2 /\ loop.nb_anyons_per_qudit = 4
    /\ Len(loop.examined) = 128

\* The states agree outside the neighbourhood of the exchange of index
\* index.  Inside qudit m (m + 1 here): everything is equal except the
\* label at position idx - 2 of the qudit (idx - 1 here), idx being the
\* index within the qudit.  Between qudits m and m + 1: everything is equal
\* except the last label of qudit m, the labels of qudit m + 1 and, when
\* m >= 1, root m - 1 (root m here).
AgreeOutside(index, state_i, state_f) ==
    LET qudit_len == Len(state_i.qudits[1])
        a == qudit_len + 1
        idx == index % a
    IN  IF idx > 0
        THEN LET m == index \div a
             IN  /\ \A k \in 1..Len(state_i.qudits) : \A p \in 1..qudit_len :
                        (k /= m + 1 \/ p /= idx - 1)
                            => state_i.qudits[k][p] = state_f.qudits[k][p]
                 /\ state_i.roots = state_f.roots
        ELSE LET m == (index \div a) - 1
             IN  /\ \A k \in 1..Len(state_i.qudits) : \A p \in 1..qudit_len :
                        (k /= m + 2 /\ ~(k = m + 1 /\ p = qudit_len))
                            => state_i.qudits[k][p] = state_f.qudits[k][p]
                 /\ \A r \in 1..Len(state_i.roots) :
                        ~(m >= 1 /\ r = m) => state_i.roots[r] = state_f.roots[r]

\* C25: the element of a generated operator between an initial state and a
\* final state that do not agree outside the neighbourhood of the exchange
\* is zero; the operator of the first index of a qudit is diagonal.
C25_ZeroOutsideNeighbourhood ==
    OperatorsGenerated =>
        LET basis == generate_basis(gen.nb_qudits, gen.nb_anyons_per_qudit)
        IN  \A f \in 1..Len(basis) : \A k \in 1..Len(basis) :
                /\ ~AgreeOutside(gen.i, basis[k], basis[f])
                       => gen.Gi[f][k] = Zero
                /\ (gen.i % gen.nb_anyons_per_qudit = 1 /\ f /= k)
                       => gen.Gi[f][k] = Zero

\* The operator between the second and the third of three qudits was
\* generated: it has a non-zero element between two states of different
\* first roots, and a zero element between two states that differ in the
\* second root only.
C25_Witness ==
    /\ OperatorsGenerated
    /\ gen.nb_qudits = 3 /\ gen.nb_anyons_per_qudit = 3 /\ gen.i = 6
    /\ \E f \in 1..Len(gen.basis) : \E k \in 1..Len(gen.basis) :
           /\ gen.basis[f].roots[1] /= gen.basis[k].roots[1]
           /\ gen.Gi[f][k] /= Zero
    /\ \E f \in 1..Len(gen.basis) : \E k \in 1..Len(gen.basis) :
           /\ gen.basis[f].qudits = gen.basis[k].qudits
           /\ gen.basis[f].roots[1] = gen.basis[k].roots[1]
           /\ gen.basis[f].roots[2] /= gen.basis[k].roots[2]
           /\ gen.Gi[f][k] = Zero

\* The number the decimal digits chars, a non-empty string, write.
RECURSIVE ParseNat(_, _)
ParseNat(chars, k) ==
    IF k = 0 THEN 0
    ELSE 10 * ParseNat(chars, k - 1)
             + (CHOOSE d \in 0..9 : Digit(d) = chars[k])

\* A token names the inverse of a generator when it starts with "is", and
\* the generator whose index follows the letters.
TokenInverse(token) == Len(token) >= 2 /\ token[1] = "i" /\ token[2] = "s"
TokenIndex(token) ==
    LET digits == SubSeq(token, IF TokenInverse(token) THEN 3 ELSE 2, Len(token))
    IN  ParseNat(digits, Len(digits))

\* The matrix a token names among the generators gs.
TokenMatrix(token, gs) ==
    IF TokenInverse(token) THEN ConjTranspose(gs[TokenIndex(token)])
    ELSE gs[TokenIndex(token)]

\* The product of the matrices the first k tokens name, the later to the
\* left.
RECURSIVE TokenProduct(_, _, _, _)
TokenProduct(tokens, gs, d, k) ==
    IF k = 0 THEN Eye(d)
    ELSE MatMul(TokenMatrix(tokens[k], gs), TokenProduct(tokens, gs, d, k - 1))

\* C26: history("sigmas") returns one token per entry of history, in the
\* order of history: for an entry (n, m) the token is "s" followed by n
\* when n < m and "is" followed by m when n > m, so that its index is
\* min(n, m); and unitary is the product of the matrices the tokens name,
\* the inverse of the generator for an "is" token, the most recent token
\* leftmost.
C26_SigmaTokens ==
    (last.op = "history" /\ last.output = "sigmas") =>
        LET tokens == last.result
        IN  /\ last.err = NoError
            /\ Len(tokens) = Len(braids_history)
            /\ \A k \in 1..Len(tokens) :
                   LET n == braids_history[k][1]
                       m == braids_history[k][2]
                   IN  /\ TokenInverse(tokens[k]) <=> n > m
                       /\ tokens[k][1] = "s" <=> n < m
                       /\ TokenIndex(tokens[k]) = (IF n < m THEN n ELSE m)
            /\ unitary = TokenProduct(tokens, sigmas, dim, Len(tokens))

\* history("sigmas") returned four tokens, forward ones of index 1 and
\* inverse ones of index 2 in turn, after braid(1, 2), braid(3, 2),
\* braid(1, 2) and braid(3, 2).
C26_Witness ==
    /\ last.op = "history" /\ last.output = "sigmas"
    /\ braids_history = <<<<1, 2>>, <<3, 2>>, <<1, 2>>, <<3, 2>>>>
    /\ last.result = <<<<"s", "1">>, <<"i", "s", "2">>, <<"s", "1">>,
                       <<"i", "s", "2">>>>
    /\ unitary /= Eye(dim)

\* Reading a LaTeX product back.  IsDigit: the character is a decimal
\* digit; ReadNat: the number written from position pos on and the
\* position after it.
IsDigit(ch) == \E d \in 0..9 : Digit(d) = ch

RECURSIVE ReadNat(_, _, _)
ReadNat(chars, pos, acc) ==
    IF pos <= Len(chars) /\ IsDigit(chars[pos])
    THEN ReadNat(chars, pos + 1,
                 10 * acc + (CHOOSE d \in 0..9 : Digit(d) = chars[pos]))
    ELSE <<acc, pos>>

\* The factors written from position pos up to the closing "$": for each
\* the index, the exponent (1 when none is written) and whether an
\* exponent is written.  A text of another shape reads as one factor of
\* exponent 0.
RECURSIVE ReadFactors(_, _)
ReadFactors(chars, pos) ==
    IF pos = Len(chars) /\ chars[pos] = "$" THEN <<>>
    ELSE IF pos + 9 > Len(chars) \/ SubSeq(chars, pos, pos + 7) /= SigmaOpen
         THEN <<<<0, 0, FALSE>>>>
    ELSE LET index == ReadNat(chars, pos + 8, 0)
             q == index[2]
         IN  IF chars[q] /= "}" THEN <<<<0, 0, FALSE>>>>
             ELSE IF q + 2 <= Len(chars) /\ chars[q + 1] = "^"
                     /\ chars[q + 2] = "{"
             THEN LET minus == chars[q + 3] = "-"
                      power == ReadNat(chars, IF minus THEN q + 4 ELSE q + 3, 0)
                  IN  IF power[2] > Len(chars) \/ chars[power[2]] /= "}"
                      THEN <<<<0, 0, FALSE>>>>
                      ELSE <<<<index[1],
                               IF minus THEN 0 - power[1] ELSE power[1],
                               TRUE>>>>
                               \o ReadFactors(chars, power[2] + 1)
             ELSE <<<<index[1], 1, FALSE>>>> \o ReadFactors(chars, q + 1)

\* The exchanges of history from the most recent to the oldest: for the
\* entry (n, m) the index min(n, m) and the direction, 1 forward (n < m)
\* and -1 inverse.
RecentFirst ==
    [k \in 1..Len(braids_history) |->
        LET e == braids_history[Len(braids_history) + 1 - k]
        IN  IF e[1] < e[2] THEN <<e[1], 1>> ELSE <<e[2], -1>>]

\* The positions of a sequence where a maximal run of equal elements
\* starts, and the length of the run that starts at position i.
RunStarts(seq) == {i \in 1..Len(seq) : i = 1 \/ seq[i] /= seq[i - 1]}
RunLength(seq, i) ==
    Cardinality({j \in i..Len(seq) : \A k \in i..j : seq[k] = seq[i]})

\* The factors of the maximal runs of a sequence of exchanges, in order.
RunFactors(seq) ==
    [r \in 1..Cardinality(RunStarts(seq)) |->
        LET i == CHOOSE i \in RunStarts(seq) :
                     Cardinality({j \in RunStarts(seq) : j < i}) = r - 1
            len == RunLength(seq, i)
        IN  <<seq[i][1], seq[i][2] * len, ~(seq[i][2] = 1 /\ len = 1)>>]

\* The sum of the absolute values of the exponents of the first k factors.
RECURSIVE SumAbsExponents(_, _)
SumAbsExponents(factors, k) ==
    IF k = 0 THEN 0
    ELSE SumAbsExponents(factors, k - 1) + Abs(factors[k][2])

\* C27: history("latex") returns "$ ", a product and "$".  The product
\* has one factor per maximal run of equal adjacent exchanges, from the
\* most recent run to the oldest; the factor shows the index of the run
\* and as exponent its length, negated for inverse exchanges and not
\* written for a single forward exchange.  The absolute exponents sum to
\* braid_count, an exchange next to its inverse keeps its own factor, and
\* the product of an empty history is empty.
C27_LatexProduct ==
    (last.op = "history" /\ last.output = "latex") =>
        LET text == last.result
            factors == ReadFactors(text, 3)
        IN  /\ last.err = NoError
            /\ Len(text) >= 3 /\ text[1] = "$" /\ text[2] = " "
            /\ factors = RunFactors(RecentFirst)
            /\ SumAbsExponents(factors, Len(factors)) = nb_braids
            /\ \A r \in 1..(Len(factors) - 1) :
                   (factors[r][1] = factors[r + 1][1])
                       => (factors[r][2] > 0) /= (factors[r + 1][2] > 0)
            /\ braids_history = <<>> => text = <<"$", " ", "$">>

\* history("latex") returned the product of the inverse of generator 2,
\* the inverse of generator 1 and the square of generator 1, after
\* braid(1, 2), braid(1, 2), braid(2, 1) and braid(3, 2).
C27_Witness ==
    /\ last.op = "history" /\ last.output = "latex"
    /\ braids_history = <<<<1, 2>>, <<1, 2>>, <<2, 1>>, <<3, 2>>>>
    /\ ReadFactors(last.result, 3)
           = <<<<2, -1, TRUE>>, <<1, -1, TRUE>>, <<1, 2, TRUE>>>>

\* C28: once the circuit is measured, no operation (initialize, braid,
\* braid_sequence, measure, run, or a read-only call) changes the value
\* statevector() returns, and measured stays true.
C28_MeasuredIsTerminal ==
    [][measured =>
          /\ measured'
          /\ MatVec(unitary', initial_state'.v)
                 = MatVec(unitary, initial_state.v)
          /\ initial_state'.ppm = initial_state.ppm]_vars

\* The number of braid calls the drawer has received.
BraidCalls(d) ==
    Cardinality({k \in 1..Len(d.calls) : d.calls[k][1] = "braid"})

\* C29: in every reachable state braid_count is the length of history and
\* the number of braid calls the drawer has received; and a call of
\* initialize raises the exception of a circuit with braids exactly when
\* history is not empty.
C29_CountsAgree ==
    /\ [](/\ nb_braids = Len(braids_history)
          /\ nb_braids = BraidCalls(drawer))
    /\ [][Called("initialize")
             => (last'.err = PyException <=> braids_history /= <<>>)]_vars

\* initialize was rejected on a circuit whose two braids undo each other:
\* the counts are 2 and the unitary is the identity again.
C29_Witness ==
    /\ last.op = "initialize" /\ last.err = PyException
    /\ nb_braids = 2 /\ Len(braids_history) = 2 /\ BraidCalls(drawer) = 2
    /\ unitary = Eye(dim)
    /\ ~measured

============================================================================
